---- MODULE Spec2Model ----
(***************************************************************************)
(* Model of the services module (ERPlora/module_services): the catalog     *)
(* service layer of src/services/service_service.py over the tables of     *)
(* src/models.py.  Text is a sequence of one-character strings, an absent  *)
(* (None / NULL) value is Null, a row set is a function from primary keys  *)
(* to records.                                                             *)
(***************************************************************************)
EXTENDS Integers, Sequences, FiniteSets, TLC

VARIABLES categories, services, packages, items,
          nextCat, nextSvc, nextPkg, last, req,
          variants, addons, service_addons, config, nextVariant, nextAddon

vars == <<categories, services, packages, items, nextCat, nextSvc, nextPkg, last, req,
          variants, addons, service_addons, config, nextVariant, nextAddon>>

\* The tables of variants, addons and settings, which most calls leave alone.
others == <<variants, addons, service_addons, config, nextVariant, nextAddon>>

(***************************************************************************)
(* Bounds of the model: the rows the catalog specification creates.        *)
(***************************************************************************)
MaxRows == 4

\* None / NULL (null=True columns, Optional[...] arguments).
Null == -1

\* Python truthiness of an Optional[int] / Optional[Decimal]: None and 0 are falsy.
Truthy(x) == x # Null /\ x # 0

(***************************************************************************)
(* Text: str.strip, django.utils.text.slugify, f"{base_slug}-{counter}".   *)
(***************************************************************************)
Upper == {"A", "B", "C"}
Lower(c) ==
    IF c = "A" THEN "a" ELSE IF c = "B" THEN "b" ELSE IF c = "C" THEN "c" ELSE c
Space == {" "}
WordChars == {"a", "b", "c", "o", "p", "q", "y", "_", "0", "1", "2", "3", "4", "5", "6", "7", "8", "9"}
DigitChars == <<"0", "1", "2", "3", "4", "5", "6", "7", "8", "9">>

RECURSIVE LStrip(_, _)
LStrip(s, drop) ==
    IF s # <<>> /\ Head(s) \in drop THEN LStrip(Tail(s), drop) ELSE s

RECURSIVE RStrip(_, _)
RStrip(s, drop) ==
    IF s # <<>> /\ s[Len(s)] \in drop THEN RStrip(SubSeq(s, 1, Len(s) - 1), drop) ELSE s

\* str.strip(): whitespace removed at both ends.
Strip(s) == RStrip(LStrip(s, Space), Space)

\* `not name or not name.strip()`
BlankOnlyEmpty(name) == name = <<>>
Blank(name) == name = <<>> \/ Strip(name) = <<>>

\* re.sub(r"[-\s]+", "-", value): every run of hyphens and whitespace becomes one hyphen.
RECURSIVE Collapse(_, _)
Collapse(s, out) ==
    IF s = <<>> THEN out
    ELSE IF Head(s) \in Space \cup {"-"}
         THEN Collapse(LStrip(s, Space \cup {"-"}), Append(out, "-"))
         ELSE Collapse(Tail(s), Append(out, Head(s)))

KeepSlugChar(c) == c \in WordChars \cup Space \cup {"-"}

\* slugify(value): lower-case, drop what is not a word character, whitespace or
\* hyphen, collapse the separator runs, strip hyphens and underscores at the ends.
slugify(value) ==
    LET lowered == [i \in 1..Len(value) |-> Lower(value[i])]
        kept == SelectSeq(lowered, KeepSlugChar)
        collapsed == Collapse(kept, <<>>)
    IN  RStrip(LStrip(collapsed, {"-", "_"}), {"-", "_"})

\* str(counter) in base ten.
RECURSIVE Digits(_)
Digits(n) ==
    IF n < 10 THEN <<DigitChars[n + 1]>>
    ELSE Digits(n \div 10) \o <<DigitChars[(n % 10) + 1]>>

\* f"{base_slug}-{counter}"
Suffixed(base_slug, counter) == base_slug \o <<"-">> \o Digits(counter)

\* First value of the counter in the slug loops (`counter = 1`).
FirstCounterFrom2 == 1 + 1
FirstCounter == 1

\* The slug loop: `while <Model>.objects.filter(slug=slug).exists(): slug = ...`,
\* taken is the set of slugs the probe finds.
RECURSIVE SlugLoop(_, _, _, _)
SlugLoop(base_slug, slug, counter, taken) ==
    IF slug \in taken
    THEN SlugLoop(base_slug, Suffixed(base_slug, counter), counter + 1, taken)
    ELSE slug

UniqueSlug(name, taken) == SlugLoop(slugify(name), slugify(name), FirstCounter, taken)

(***************************************************************************)
(* Tables.  categories: pk -> [name, slug, parent]; services: pk -> [name, *)
(* slug, category, pricing_type, min_price, max_price]; packages: pk ->    *)
(* [name, slug]; items: the ServicePackageItem rows [package, service,     *)
(* quantity, order].  nextCat, nextSvc, nextPkg are the AutoField          *)
(* sequences.  last is the outcome of the latest service-layer call.       *)
(***************************************************************************)
Put(table, pk, row) == [k \in DOMAIN table \cup {pk} |-> IF k = pk THEN row ELSE table[k]]
Drop(table, pks) == [k \in DOMAIN table \ pks |-> table[k]]
Empty == [k \in {} |-> 0]

\* <Model>.objects.filter(slug=slug) / .exclude(pk=pk): the slugs a probe can find.
Slugs(table) == {table[k].slug : k \in DOMAIN table}
SlugsExcluding(table, pk) == {table[k].slug : k \in DOMAIN table \ {pk}}

\* <Model>.objects.get(pk=id) raises DoesNotExist.
DoesNotExistIgnored(table, id) == FALSE
DoesNotExist(table, id) == id \notin DOMAIN table

(***************************************************************************)
(* ServiceCategory: children, get_descendants, clean.                      *)
(***************************************************************************)
\* category.children: the rows whose parent is c.
Children(cats, c) == {k \in DOMAIN cats : cats[k].parent = c}

\* A set of keys as a sequence in ascending key order.
RECURSIVE InOrder(_)
InOrder(S) ==
    IF S = {} THEN <<>>
    ELSE LET m == CHOOSE x \in S : \A y \in S : x <= y IN <<m>> \o InOrder(S \ {m})

\* ServiceCategory.get_descendants: each child followed by its own descendants.
RECURSIVE get_descendants(_, _)
RECURSIVE DescendantsOfEach(_, _)
DescendantsOfEach(cats, kids) ==
    IF kids = <<>> THEN <<>>
    ELSE <<Head(kids)>> \o get_descendants(cats, Head(kids)) \o DescendantsOfEach(cats, Tail(kids))
get_descendants(cats, c) == DescendantsOfEach(cats, InOrder(Children(cats, c)))

Range(seq) == {seq[i] : i \in 1..Len(seq)}

\* The walk of ServiceCategory.clean from c's parent upwards: TRUE when it meets c.
\* steps bounds the walk by the number of rows.
RECURSIVE MeetsSelf(_, _, _, _)
MeetsSelf(cats, c, ancestor, steps) ==
    IF ancestor = Null \/ ancestor \notin DOMAIN cats \/ steps = 0 THEN FALSE
    ELSE IF ancestor = c THEN TRUE
    ELSE MeetsSelf(cats, c, cats[ancestor].parent, steps - 1)

OwnAncestor(cats, c) == MeetsSelf(cats, c, cats[c].parent, Cardinality(DOMAIN cats))

\* k is c or lies below c: the walk up from k meets c.
Below(cats, k, c) ==
    k \in DOMAIN cats /\ (k = c \/ MeetsSelf(cats, c, cats[k].parent, Cardinality(DOMAIN cats)))

\* get_descendants has no guard: when a row below c (or c) is its own ancestor the
\* recursion never returns and Python raises RecursionError.
RecursionError(cats, c) == \E k \in DOMAIN cats : Below(cats, k, c) /\ OwnAncestor(cats, k)

\* update_category: `parent == category or parent in category.get_descendants()`
IsCircularSelfOnly(cats, c, parent) == parent = c
IsCircular(cats, c, parent) == parent = c \/ parent \in Range(get_descendants(cats, c))

(***************************************************************************)
(* Outcome of a call: (entity | success, error message).                   *)
(***************************************************************************)
NoName == <<>>
Outcome(op, ok, err, id, name, ref) ==
    [op |-> op, ok |-> ok, err |-> err, id |-> id, name |-> name, ref |-> ref]

\* `if category_id:` / `if parent_id:` -- the id is looked up only when truthy.
IdGiven(id) == Truthy(id)

(***************************************************************************)
(* Category management, one call at a time.                                *)
(***************************************************************************)
CreateCategory(name, parent_id) ==
    /\ IF Blank(name)
       THEN /\ last' = Outcome("create_category", FALSE, "Category name is required", 0, name, parent_id)
            /\ UNCHANGED <<categories, nextCat>>
       ELSE IF IdGiven(parent_id) /\ DoesNotExist(categories, parent_id)
       THEN /\ last' = Outcome("create_category", FALSE, "Parent category not found", 0, name, parent_id)
            /\ UNCHANGED <<categories, nextCat>>
       ELSE /\ categories' = Put(categories, nextCat,
                                 [name |-> Strip(name),
                                  slug |-> UniqueSlug(name, Slugs(categories)),
                                  parent |-> IF IdGiven(parent_id) THEN parent_id ELSE Null,
                                  is_active |-> TRUE])
            /\ nextCat' = nextCat + 1
            /\ last' = Outcome("create_category", TRUE, "", nextCat, name, parent_id)
    /\ UNCHANGED <<services, packages, items, nextSvc, nextPkg, req>>
    /\ UNCHANGED others

\* kw.has is the set of keyword arguments the call passes.
UpdateCategory(c, kw) ==
    /\ c \in DOMAIN categories
    /\ LET hasParent == "parent_id" \in kw.has
           lookup == hasParent /\ IdGiven(kw.parent_id)
           renamed == "name" \in kw.has /\ kw.name # categories[c].name
           ref == IF hasParent THEN kw.parent_id ELSE Null
           name == IF "name" \in kw.has THEN kw.name ELSE NoName
       IN  IF lookup /\ DoesNotExist(categories, kw.parent_id)
           THEN /\ last' = Outcome("update_category", FALSE, "Parent category not found", c, name, ref)
                /\ UNCHANGED categories
           ELSE IF lookup /\ kw.parent_id # c /\ RecursionError(categories, c)
           THEN /\ last' = Outcome("update_category", FALSE, "RecursionError", c, name, ref)
                /\ UNCHANGED categories
           ELSE IF lookup /\ IsCircular(categories, c, kw.parent_id)
           THEN /\ last' = Outcome("update_category", FALSE, "Cannot set descendant as parent", c, name, ref)
                /\ UNCHANGED categories
           ELSE /\ categories' = Put(categories, c,
                     [name |-> IF "name" \in kw.has THEN kw.name ELSE categories[c].name,
                      slug |-> IF renamed
                               THEN UniqueSlug(kw.name, SlugsExcluding(categories, c))
                               ELSE categories[c].slug,
                      parent |-> IF ~hasParent THEN categories[c].parent
                                 ELSE IF lookup THEN kw.parent_id ELSE Null,
                      is_active |-> IF "is_active" \in kw.has THEN kw.is_active
                                    ELSE categories[c].is_active])
                /\ last' = Outcome("update_category", TRUE, "", c, name, ref)
    /\ UNCHANGED <<services, packages, items, nextCat, nextSvc, nextPkg, req>>
    /\ UNCHANGED others

\* delete_category: where the services and the children are moved to, category
\* being the loaded ServiceCategory object.
MoveTargetRoot(category) == Null
MoveTarget(category) == category.parent

\* category.services.update(category=category.parent)
MoveServices(svcs, c, target) ==
    [s \in DOMAIN svcs |->
        IF svcs[s].category = c THEN [svcs[s] EXCEPT !.category = target] ELSE svcs[s]]

\* category.children.update(parent=category.parent)
MoveChildren(cats, c, target) ==
    [k \in DOMAIN cats |->
        IF cats[k].parent = c THEN [cats[k] EXCEPT !.parent = target] ELSE cats[k]]

\* category.delete(): parent is on_delete=CASCADE, Service.category is SET_NULL.
Doomed(cats, c) == {k \in DOMAIN cats : Below(cats, k, c)}
DeleteCategoryRows(cats, c) == Drop(cats, Doomed(cats, c))
DetachServices(svcs, gone) ==
    [s \in DOMAIN svcs |->
        IF svcs[s].category \in gone THEN [svcs[s] EXCEPT !.category = Null] ELSE svcs[s]]

DeleteCategory(c, move_to_parent) ==
    /\ c \in DOMAIN categories
    /\ LET target == MoveTarget(categories[c])
           svcs1 == IF move_to_parent THEN MoveServices(services, c, target) ELSE services
           cats1 == IF move_to_parent THEN MoveChildren(categories, c, target) ELSE categories
       IN  /\ categories' = DeleteCategoryRows(cats1, c)
           /\ services' = DetachServices(svcs1, Doomed(cats1, c))
    /\ last' = Outcome("delete_category", TRUE, "", c, NoName, IF move_to_parent THEN 1 ELSE 0)
    /\ UNCHANGED <<packages, items, nextCat, nextSvc, nextPkg, req>>
    /\ UNCHANGED others

(***************************************************************************)
(* Service CRUD, one call at a time.                                       *)
(***************************************************************************)
\* `if min_price and max_price and min_price > max_price` under pricing_type 'variable'.
PriceRangeRejected(pricing_type, min_price, max_price) ==
    /\ pricing_type = "variable"
    /\ Truthy(min_price) /\ Truthy(max_price)
    /\ min_price > max_price

\* The settings row as the model declares it (ServicesConfig field defaults).
DefaultConfig ==
    [default_duration |-> 60, default_tax_rate |-> 21, include_tax_in_price |-> TRUE,
     show_prices |-> TRUE]

\* ServicesConfig.get_config(): get_or_create(pk=1); the settings table afterwards.
get_config(cfg) == IF 1 \in DOMAIN cfg THEN cfg ELSE Put(cfg, 1, DefaultConfig)

\* A sku is a number standing for its text; 0 stands for None and for ''.
NoSku == 0

\* The arguments of create_service, the ones not given at their defaults.
ServiceArgs(name, category_id, pricing_type, min_price, max_price) ==
    [name |-> name, category_id |-> category_id, pricing_type |-> pricing_type,
     min_price |-> min_price, max_price |-> max_price,
     price |-> 0, cost |-> 0, tax_rate |-> Null, duration_minutes |-> 60,
     is_featured |-> FALSE, barcode |-> <<>>, order |-> 0, sku |-> NoSku,
     description |-> <<>>, is_bookable |-> TRUE]

\* The error create_service returns before it writes, "" when it goes on to write.
CreateServiceError(a, cats) ==
    IF Blank(a.name) THEN "Service name is required"
    ELSE IF IdGiven(a.category_id) /\ DoesNotExist(cats, a.category_id) THEN "Category not found"
    ELSE IF PriceRangeRejected(a.pricing_type, a.min_price, a.max_price)
    THEN "Minimum price cannot be greater than maximum price"
    ELSE ""

\* `if duration_minutes == 60 and config.default_duration != 60:
\*      duration_minutes = config.default_duration`
StoredDurationAsGiven(duration_minutes, cfg) == duration_minutes
StoredDuration(duration_minutes, cfg) ==
    IF duration_minutes = 60 /\ cfg[1].default_duration # 60
    THEN cfg[1].default_duration
    ELSE duration_minutes

\* The row Service.objects.create(...) of create_service inserts; cfg is the settings
\* table after get_config().  is_active is not an argument: the column default.
NewServiceRow(a, svcs, cfg) ==
    [name |-> Strip(a.name),
     slug |-> UniqueSlug(a.name, Slugs(svcs)),
     category |-> IF IdGiven(a.category_id) THEN a.category_id ELSE Null,
     pricing_type |-> a.pricing_type,
     min_price |-> a.min_price,
     max_price |-> a.max_price,
     price |-> a.price,
     cost |-> a.cost,
     tax_rate |-> a.tax_rate,
     duration_minutes |-> StoredDuration(a.duration_minutes, cfg),
     is_active |-> TRUE,
     is_featured |-> a.is_featured,
     barcode |-> a.barcode,
     order |-> a.order,
     sku |-> IF a.sku # NoSku THEN a.sku ELSE Null,
     description |-> a.description,
     is_bookable |-> a.is_bookable]

CreateServiceWith(a) ==
    /\ LET error == CreateServiceError(a, categories)
       IN  IF error # ""
           THEN /\ last' = Outcome("create_service", FALSE, error, 0, a.name, a.category_id)
                /\ UNCHANGED <<services, nextSvc, config>>
           ELSE /\ config' = get_config(config)
                /\ services' = Put(services, nextSvc, NewServiceRow(a, services, get_config(config)))
                /\ nextSvc' = nextSvc + 1
                /\ last' = Outcome("create_service", TRUE, "", nextSvc, a.name, a.category_id)
    /\ UNCHANGED <<categories, packages, items, nextCat, nextPkg, req>>
    /\ UNCHANGED <<variants, addons, service_addons, nextVariant, nextAddon>>

CreateService(name, category_id, pricing_type, min_price, max_price) ==
    CreateServiceWith(ServiceArgs(name, category_id, pricing_type, min_price, max_price))

\* The value a keyword argument gives a field, or the stored one: kwargs.get(key, service.key).
Given(kw, key, stored) == IF key \in kw.has THEN kw[key] ELSE stored

UpdateService(s, kw) ==
    /\ s \in DOMAIN services
    /\ LET hasCat == "category_id" \in kw.has
           lookup == hasCat /\ IdGiven(kw.category_id)
           renamed == "name" \in kw.has /\ kw.name # services[s].name
           ref == IF hasCat THEN kw.category_id ELSE Null
           name == IF "name" \in kw.has THEN kw.name ELSE NoName
           min_price == Given(kw, "min_price", services[s].min_price)
           max_price == Given(kw, "max_price", services[s].max_price)
           pricing_type == Given(kw, "pricing_type", services[s].pricing_type)
       IN  IF lookup /\ DoesNotExist(categories, kw.category_id)
           THEN /\ last' = Outcome("update_service", FALSE, "Category not found", s, name, ref)
                /\ UNCHANGED services
           ELSE IF PriceRangeRejected(pricing_type, min_price, max_price)
           THEN /\ last' = Outcome("update_service", FALSE,
                                   "Minimum price cannot be greater than maximum price", s, name, ref)
                /\ UNCHANGED services
           ELSE /\ services' = Put(services, s,
                     [services[s] EXCEPT
                      !.name = Given(kw, "name", services[s].name),
                      !.slug = IF renamed
                               THEN UniqueSlug(kw.name, SlugsExcluding(services, s))
                               ELSE services[s].slug,
                      !.category = IF ~hasCat THEN services[s].category
                                   ELSE IF lookup THEN kw.category_id ELSE Null,
                      !.pricing_type = pricing_type,
                      !.min_price = min_price,
                      !.max_price = max_price])
                /\ last' = Outcome("update_service", TRUE, "", s, name, ref)
    /\ UNCHANGED <<categories, packages, items, nextCat, nextSvc, nextPkg, req>>
    /\ UNCHANGED others

\* service.delete(): ServicePackageItem.service and ServiceVariant.service are
\* on_delete=CASCADE, and the rows of ServiceAddon.services go with the service.
\* on_delete=CASCADE of ServicePackageItem.service and of ServiceVariant.service
CascadeItemsKept(its, s) == its
CascadeItems(its, s) == {i \in its : i.service # s}
CascadeVariants(vars_, s) == Drop(vars_, {v \in DOMAIN vars_ : vars_[v].service = s})

DeleteService(s) ==
    /\ s \in DOMAIN services
    /\ services' = Drop(services, {s})
    /\ items' = CascadeItems(items, s)
    /\ variants' = CascadeVariants(variants, s)
    /\ service_addons' = {l \in service_addons : l.service # s}
    /\ last' = Outcome("delete_service", TRUE, "", s, NoName, Null)
    /\ UNCHANGED <<categories, packages, nextCat, nextSvc, nextPkg, req>>
    /\ UNCHANGED <<addons, config, nextVariant, nextAddon>>

(***************************************************************************)
(* Package management, one call at a time.  A call runs in one             *)
(* transaction.atomic block whose try/except lies inside the block: the    *)
(* block is left by `return`, so it commits, unless a failed Model.save    *)
(* has marked the transaction for rollback.                                *)
(***************************************************************************)
\* A service_id that is no integer (JSON text such as "abc").
NotAnInt == Null - 1

Item(service_id, quantity) == [service_id |-> service_id, quantity |-> quantity]

\* ServicePackageItem.Meta.unique_together = ['package', 'service']
PairTaken(rows, p, s) == \E i \in rows : i.package = p /\ i.service = s

\* The loop over service_items from position idx on: rows are the item rows so
\* far, exc the exception that ended the loop ("" when none did).
\* Service.objects.get raises ValueError for a pk that is no integer and
\* DoesNotExist (passed over) for an unknown one; ServicePackageItem.objects.create
\* raises IntegrityError for a repeated (package, service).
RECURSIVE AddItems(_, _, _, _)
AddItems(p, service_items, idx, rows) ==
    IF idx > Len(service_items) THEN [rows |-> rows, exc |-> ""]
    ELSE LET item == service_items[idx]
         IN  IF item.service_id = NotAnInt THEN [rows |-> rows, exc |-> "ValueError"]
             ELSE IF DoesNotExist(services, item.service_id)
             THEN AddItems(p, service_items, idx + 1, rows)
             ELSE IF PairTaken(rows, p, item.service_id)
             THEN [rows |-> rows, exc |-> "IntegrityError"]
             ELSE AddItems(p, service_items, idx + 1,
                           rows \cup {[package |-> p, service |-> item.service_id,
                                       quantity |-> item.quantity, order |-> idx - 1]})

\* The exceptions raised inside Model.save: they mark the enclosing atomic block
\* for rollback, so the block rolls back although the exception was caught in it.
NeedsRollback(exc) == exc = "IntegrityError"

\* The service_id of every item given, in order (what the call was given).
ServiceIds(service_items) == [i \in 1..Len(service_items) |-> service_items[i].service_id]

\* The arguments of create_package, the ones not given at their defaults.
PackageArgs(name, service_items) ==
    [name |-> name, service_items |-> service_items,
     discount_type |-> "percentage", discount_value |-> 0, fixed_price |-> Null]

\* The row ServicePackage.objects.create(...) of create_package inserts.
NewPackageRow(a, pkgs) ==
    [name |-> Strip(a.name), slug |-> UniqueSlug(a.name, Slugs(pkgs)),
     discount_type |-> a.discount_type, discount_value |-> a.discount_value,
     fixed_price |-> a.fixed_price]

CreatePackageWith(a) ==
    /\ IF Blank(a.name)
       THEN /\ last' = Outcome("create_package", FALSE, "Package name is required", 0, a.name, ServiceIds(a.service_items))
            /\ UNCHANGED <<packages, items, nextPkg>>
       ELSE IF a.service_items = <<>>
       THEN /\ last' = Outcome("create_package", FALSE, "At least one service is required", 0, a.name, ServiceIds(a.service_items))
            /\ UNCHANGED <<packages, items, nextPkg>>
       ELSE LET row == NewPackageRow(a, packages)
                added == AddItems(nextPkg, a.service_items, 1, items)
            IN  IF added.exc = ""
                THEN /\ packages' = Put(packages, nextPkg, row)
                     /\ items' = added.rows
                     /\ nextPkg' = nextPkg + 1
                     /\ last' = Outcome("create_package", TRUE, "", nextPkg, a.name, ServiceIds(a.service_items))
                ELSE IF NeedsRollback(added.exc)
                THEN /\ last' = Outcome("create_package", FALSE, added.exc, 0, a.name, ServiceIds(a.service_items))
                     /\ UNCHANGED <<packages, items, nextPkg>>
                ELSE /\ packages' = Put(packages, nextPkg, row)
                     /\ items' = added.rows
                     /\ nextPkg' = nextPkg + 1
                     /\ last' = Outcome("create_package", FALSE, added.exc, 0, a.name, ServiceIds(a.service_items))
    /\ UNCHANGED <<categories, services, nextCat, nextSvc, req>>
    /\ UNCHANGED others

CreatePackage(name, service_items) == CreatePackageWith(PackageArgs(name, service_items))

\* update_package(package, service_items, **kwargs); hasItems is `service_items is not None`.
UpdatePackage(p, kw, hasItems, service_items) ==
    /\ p \in DOMAIN packages
    /\ LET renamed == "name" \in kw.has /\ kw.name # packages[p].name
           name == IF "name" \in kw.has THEN kw.name ELSE NoName
           row == [packages[p] EXCEPT
                   !.name = Given(kw, "name", packages[p].name),
                   !.slug = IF renamed
                            THEN UniqueSlug(kw.name, SlugsExcluding(packages, p))
                            ELSE packages[p].slug]
           kept == {i \in items : i.package # p}
           added == IF hasItems THEN AddItems(p, service_items, 1, kept)
                    ELSE [rows |-> items, exc |-> ""]
       IN  IF added.exc # "" /\ NeedsRollback(added.exc)
           THEN /\ last' = Outcome("update_package", FALSE, added.exc, p, name, ServiceIds(service_items))
                /\ UNCHANGED <<packages, items>>
           ELSE /\ packages' = Put(packages, p, row)
                /\ items' = added.rows
                /\ last' = Outcome("update_package", added.exc = "", added.exc, p, name, ServiceIds(service_items))
    /\ UNCHANGED <<categories, services, nextCat, nextSvc, nextPkg, req>>
    /\ UNCHANGED others

\* package.delete(): ServicePackageItem.package is on_delete=CASCADE.
DeletePackage(p) ==
    /\ p \in DOMAIN packages
    /\ packages' = Drop(packages, {p})
    /\ items' = {i \in items : i.package # p}
    /\ last' = Outcome("delete_package", TRUE, "", p, NoName, Null)
    /\ UNCHANGED <<categories, services, nextCat, nextSvc, nextPkg, req>>
    /\ UNCHANGED others

(***************************************************************************)
(* Variant management, one call at a time.                                 *)
(***************************************************************************)
\* service.variants.filter(name=name)[.exclude(pk=pk)].exists()
VariantNameTakenNever(vars_, s, name, pk) == FALSE
VariantNameTaken(vars_, s, name, pk) ==
    \E v \in DOMAIN vars_ : v # pk /\ vars_[v].service = s /\ vars_[v].name = name

\* create_variant(service, name, price_adjustment, duration_adjustment)
CreateVariant(s, name, price_adjustment, duration_adjustment) ==
    /\ s \in DOMAIN services
    /\ IF Blank(name)
       THEN /\ last' = Outcome("create_variant", FALSE, "Variant name is required", 0, name, s)
            /\ UNCHANGED <<variants, nextVariant>>
       ELSE IF VariantNameTaken(variants, s, Strip(name), 0)
       THEN /\ last' = Outcome("create_variant", FALSE,
                               "A variant with this name already exists", 0, name, s)
            /\ UNCHANGED <<variants, nextVariant>>
       ELSE /\ variants' = Put(variants, nextVariant,
                               [service |-> s, name |-> Strip(name),
                                price_adjustment |-> price_adjustment,
                                duration_adjustment |-> duration_adjustment,
                                order |-> 0, is_active |-> TRUE])
            /\ nextVariant' = nextVariant + 1
            /\ last' = Outcome("create_variant", TRUE, "", nextVariant, name, s)
    /\ UNCHANGED <<categories, services, packages, items, nextCat, nextSvc, nextPkg, req>>
    /\ UNCHANGED <<addons, service_addons, config, nextAddon>>

\* update_variant(variant, **kwargs)
UpdateVariant(v, kw) ==
    /\ v \in DOMAIN variants
    /\ LET name == IF "name" \in kw.has THEN kw.name ELSE NoName
           s == variants[v].service
       IN  IF "name" \in kw.has /\ VariantNameTaken(variants, s, kw.name, v)
           THEN /\ last' = Outcome("update_variant", FALSE,
                                   "A variant with this name already exists", v, name, s)
                /\ UNCHANGED variants
           ELSE /\ variants' = Put(variants, v,
                      [variants[v] EXCEPT
                       !.name = Given(kw, "name", variants[v].name),
                       !.price_adjustment = Given(kw, "price_adjustment", variants[v].price_adjustment),
                       !.duration_adjustment =
                           Given(kw, "duration_adjustment", variants[v].duration_adjustment)])
                /\ last' = Outcome("update_variant", TRUE, "", v, name, s)
    /\ UNCHANGED <<categories, services, packages, items, nextCat, nextSvc, nextPkg, req>>
    /\ UNCHANGED <<addons, service_addons, config, nextVariant, nextAddon>>

DeleteVariant(v) ==
    /\ v \in DOMAIN variants
    /\ variants' = Drop(variants, {v})
    /\ last' = Outcome("delete_variant", TRUE, "", v, NoName, Null)
    /\ UNCHANGED <<categories, services, packages, items, nextCat, nextSvc, nextPkg, req>>
    /\ UNCHANGED <<addons, service_addons, config, nextVariant, nextAddon>>

(***************************************************************************)
(* Addon management, one call at a time.                                   *)
(***************************************************************************)
\* addon.services.set(Service.objects.filter(pk__in=service_ids))
SetServices(links, a, service_ids) ==
    {l \in links : l.addon # a}
        \cup {[service |-> s, addon |-> a] : s \in service_ids \cap DOMAIN services}

\* create_addon(name, price, duration_minutes, service_ids); `if service_ids:` passes
\* over None and the empty list alike.
CreateAddon(name, price, duration_minutes, service_ids) ==
    /\ IF Blank(name)
       THEN /\ last' = Outcome("create_addon", FALSE, "Addon name is required", 0, name, Null)
            /\ UNCHANGED <<addons, service_addons, nextAddon>>
       ELSE /\ addons' = Put(addons, nextAddon,
                             [name |-> Strip(name), price |-> price,
                              duration_minutes |-> duration_minutes])
            /\ service_addons' = SetServices(service_addons, nextAddon, service_ids)
            /\ nextAddon' = nextAddon + 1
            /\ last' = Outcome("create_addon", TRUE, "", nextAddon, name, Null)
    /\ UNCHANGED <<categories, services, packages, items, nextCat, nextSvc, nextPkg, req>>
    /\ UNCHANGED <<variants, config, nextVariant>>

\* update_addon(addon, service_ids, **kwargs); hasIds is `service_ids is not None`.
UpdateAddon(a, kw, hasIds, service_ids) ==
    /\ a \in DOMAIN addons
    /\ addons' = Put(addons, a, [addons[a] EXCEPT !.name = Given(kw, "name", addons[a].name)])
    /\ service_addons' = IF hasIds THEN SetServices(service_addons, a, service_ids)
                         ELSE service_addons
    /\ last' = Outcome("update_addon", TRUE, "", a,
                       IF "name" \in kw.has THEN kw.name ELSE NoName, Null)
    /\ UNCHANGED <<categories, services, packages, items, nextCat, nextSvc, nextPkg, req>>
    /\ UNCHANGED <<variants, config, nextVariant, nextAddon>>

DeleteAddon(a) ==
    /\ a \in DOMAIN addons
    /\ addons' = Drop(addons, {a})
    /\ service_addons' = {l \in service_addons : l.addon # a}
    /\ last' = Outcome("delete_addon", TRUE, "", a, NoName, Null)
    /\ UNCHANGED <<categories, services, packages, items, nextCat, nextSvc, nextPkg, req>>
    /\ UNCHANGED <<variants, config, nextVariant, nextAddon>>

(***************************************************************************)
(* The catalog specification: categories and the services in them.         *)
(***************************************************************************)
NoOutcome == Outcome("none", TRUE, "", 0, NoName, Null)

Init ==
    /\ categories = Empty
    /\ services = Empty
    /\ packages = Empty
    /\ items = {}
    /\ nextCat = 1
    /\ nextSvc = 1
    /\ nextPkg = 1
    /\ last = NoOutcome
    /\ req = Empty
    /\ variants = Empty
    /\ addons = Empty
    /\ service_addons = {}
    /\ config = Empty
    /\ nextVariant = 1
    /\ nextAddon = 1

\* The rows created so far, in every table.
Created == (nextSvc - 1) + (nextCat - 1) + (nextPkg - 1)

\* Names given to the calls of the catalog specification.
CatalogNames == {<<"a">>, <<" ">>}
\* Ids given as category_id / parent_id: None, 0, every key in use or not.
RefIds == {Null} \cup 0..MaxRows

Kw(has, name, ref) ==
    [has |-> has, name |-> name, parent_id |-> ref, category_id |-> ref,
     pricing_type |-> "fixed", min_price |-> Null, max_price |-> Null]

Next ==
    \/ \E name \in CatalogNames, parent_id \in RefIds :
          Created < MaxRows /\ CreateCategory(name, parent_id)
    \/ \E c \in 1..MaxRows, parent_id \in RefIds : UpdateCategory(c, Kw({"parent_id"}, NoName, parent_id))
    \/ \E c \in 1..MaxRows, move_to_parent \in BOOLEAN : DeleteCategory(c, move_to_parent)
    \/ \E name \in CatalogNames, category_id \in RefIds :
          Created < MaxRows /\ CreateService(name, category_id, "fixed", Null, Null)
    \/ \E s \in 1..MaxRows, category_id \in RefIds : UpdateService(s, Kw({"category_id"}, NoName, category_id))

Spec == Init /\ [][Next]_vars

(***************************************************************************)
(* Properties of Spec.                                                     *)
(***************************************************************************)
Acyclic(cats) == \A c \in DOMAIN cats : ~OwnAncestor(cats, c)

C1_RejectsCircularParent ==
    (/\ last'.op = "update_category"
     /\ last'.id \in DOMAIN categories
     /\ Below(categories, last'.ref, last'.id))
    => (/\ ~last'.ok
        /\ last'.id \in DOMAIN categories'
        /\ categories'[last'.id].parent = categories[last'.id].parent)

\* C1: with calls executed one at a time no category is ever its own ancestor, and
\* update_category with parent_id the category itself or one of its descendants
\* fails and leaves the stored parent as it was.
C1_Acyclic == [](Acyclic(categories)) /\ [][C1_RejectsCircularParent]_vars

\* A grandchild was refused as the new parent of its grandparent.
C1_Witness ==
    /\ last.op = "update_category" /\ ~last.ok
    /\ last.err = "Cannot set descendant as parent"
    /\ last.ref \in DOMAIN categories
    /\ categories[last.ref].parent \notin {Null, last.id}

C5_DeleteMoves ==
    (/\ last'.op = "delete_category" /\ last'.ok /\ last'.ref = 1
     /\ last'.id \in DOMAIN categories)
    => LET c == last'.id
           p == categories[c].parent
       IN  /\ DOMAIN categories' = DOMAIN categories \ {c}
           /\ DOMAIN services' = DOMAIN services
           /\ \A k \in DOMAIN categories' :
                 /\ categories'[k].parent # c
                 /\ categories'[k] = IF categories[k].parent = c
                                     THEN [categories[k] EXCEPT !.parent = p]
                                     ELSE categories[k]
           /\ \A s \in DOMAIN services' :
                 /\ services'[s].category # c
                 /\ services'[s] = IF services[s].category = c
                                   THEN [services[s] EXCEPT !.category = p]
                                   ELSE services[s]

\* C5: delete_category(c, move_to_parent=True) removes c, leaves no service and no
\* category referring to c, gives c's former children and services c's former parent
\* (null for a root) and changes nothing else.
C5_DeleteReassigns == [][C5_DeleteMoves]_vars

\* c was deleted from between a parent and a child, with a service in the tree.
C5_Witness ==
    /\ last.op = "delete_category" /\ last.ok /\ last.ref = 1
    /\ last.id \notin DOMAIN categories
    /\ \E k \in DOMAIN categories :
          /\ k > last.id /\ categories[k].parent # Null /\ categories[k].parent < last.id
          /\ \E s \in DOMAIN services : services[s].category = categories[k].parent

NotFoundErrors == {"Category not found", "Parent category not found"}
RefOps == {"create_service", "update_service", "create_category", "update_category"}

C10_NotFoundStep(given) ==
    (/\ last'.op \in RefOps
     /\ given
     /\ last'.ref \notin DOMAIN categories)
    => (/\ ~last'.ok
        /\ last'.err \in NotFoundErrors
        /\ categories' = categories
        /\ services' = services)

\* C10 as stated: every category_id / parent_id that resolves to no stored category
\* gives a not-found error and no write.
C10_AsStated == [][C10_NotFoundStep(last'.ref # Null)]_vars

\* C10: a non-zero category_id / parent_id that resolves to no stored category gives
\* a not-found error and no write, in the create calls when the name is not blank
\* (a blank name is reported first, an id of 0 is taken as no id).
C10_NotFound ==
    [][C10_NotFoundStep(/\ Truthy(last'.ref)
                        /\ (last'.op \in {"create_service", "create_category"} => ~Blank(last'.name)))]_vars

C10_Witness ==
    /\ last.op = "update_service" /\ ~last.ok /\ last.err = "Category not found"
    /\ services # Empty /\ categories # Empty

(***************************************************************************)
(* The pricing specification: services with a price range.                 *)
(***************************************************************************)
MaxPricedSvc == 2
MaxPrice == 2

PricingTypes == {"fixed", "variable"}
Prices == {Null} \cup 0..MaxPrice
PriceKeys == {"pricing_type", "min_price", "max_price"}

PriceKw(has, pricing_type, min_price, max_price) ==
    [has |-> has, name |-> NoName, parent_id |-> Null, category_id |-> Null,
     pricing_type |-> pricing_type, min_price |-> min_price, max_price |-> max_price]

NextPrice ==
    \/ \E pricing_type \in PricingTypes, min_price \in Prices, max_price \in Prices :
          nextSvc <= MaxPricedSvc /\ CreateService(<<"a">>, Null, pricing_type, min_price, max_price)
    \/ \E s \in 1..MaxPricedSvc, has \in SUBSET PriceKeys,
          pricing_type \in PricingTypes, min_price \in Prices, max_price \in Prices :
          UpdateService(s, PriceKw(has, pricing_type, min_price, max_price))
    \/ \E s \in 1..MaxPricedSvc : DeleteService(s)

SpecPrice == Init /\ [][NextPrice]_vars

\* C4: every stored service with pricing_type variable whose min_price and max_price
\* are both set (0 included) has min_price <= max_price.
C4_PriceRange ==
    \A s \in DOMAIN services :
        (/\ services[s].pricing_type = "variable"
         /\ services[s].min_price # Null
         /\ services[s].max_price # Null)
        => services[s].min_price <= services[s].max_price

(***************************************************************************)
(* The package specification.                                              *)
(***************************************************************************)
MaxPkg == 1
MaxPkgSvc == 2
MaxItems == 2

ServiceIdInputs == {NotAnInt} \cup 1..(MaxPkgSvc + 1)
ItemInputs == {Item(service_id, 1) : service_id \in ServiceIdInputs}
ItemLists == UNION {[1..n -> ItemInputs] : n \in 0..MaxItems}
PackageNames == {<<"p">>, <<"q">>}

NameKw(has, name) ==
    [has |-> has, name |-> name, parent_id |-> Null, category_id |-> Null,
     pricing_type |-> "fixed", min_price |-> Null, max_price |-> Null]

NextPkg ==
    \/ nextSvc <= MaxPkgSvc /\ CreateService(<<"a">>, Null, "fixed", Null, Null)
    \/ \E s \in 1..MaxPkgSvc : DeleteService(s)
    \/ \E name \in PackageNames, service_items \in ItemLists :
          nextPkg <= MaxPkg /\ CreatePackage(name, service_items)
    \/ \E p \in 1..MaxPkg, has \in SUBSET {"name"}, name \in PackageNames,
          hasItems \in BOOLEAN, service_items \in ItemLists :
          UpdatePackage(p, NameKw(has, name), hasItems, service_items)
    \/ \E p \in 1..MaxPkg : DeletePackage(p)

SpecPkg == Init /\ [][NextPkg]_vars

C6_FailureWritesNothing ==
    (last'.op \in {"create_package", "update_package"} /\ ~last'.ok)
    => (packages' = packages /\ items' = items)

\* C6: a create_package or update_package call that returns an error leaves the
\* ServicePackage and ServicePackageItem rows exactly as they were.
C6_AllOrNothing == [][C6_FailureWritesNothing]_vars

(***************************************************************************)
(* The slug specification: creations under colliding names.                *)
(***************************************************************************)
MaxCreated == 3

\* "a", "A!" and " a" have the slug a; "a-1" has the slug a with the first suffix.
SlugNames == {<<"a">>, <<"A", "!">>, <<" ", "a">>, <<"a", "-", "1">>}

NextSlug ==
    \/ \E name \in SlugNames :
          Created < MaxCreated /\ CreateService(name, Null, "fixed", Null, Null)
    \/ \E name \in SlugNames : Created < MaxCreated /\ CreateCategory(name, Null)
    \/ \E name \in SlugNames : Created < MaxCreated /\ CreatePackage(name, <<Item(1, 1)>>)
    \/ \E s \in 1..MaxCreated : DeleteService(s)

SpecSlug == Init /\ [][NextSlug]_vars

\* x when x is free, otherwise x-n for the smallest n >= 1 with x-n free.
ExpectedSlug(x, taken) ==
    IF x \notin taken THEN x
    ELSE LET free(n) == Suffixed(x, n) \notin taken
             n == CHOOSE k \in 1..(Cardinality(taken) + 1) :
                     free(k) /\ \A m \in 1..(k - 1) : ~free(m)
         IN  Suffixed(x, n)

C3_SlugOfCreated ==
    /\ (last'.op = "create_service" /\ last'.ok)
       => services'[last'.id].slug = ExpectedSlug(slugify(last'.name), Slugs(services))
    /\ (last'.op = "create_category" /\ last'.ok)
       => categories'[last'.id].slug = ExpectedSlug(slugify(last'.name), Slugs(categories))
    /\ (last'.op = "create_package" /\ last'.ok)
       => packages'[last'.id].slug = ExpectedSlug(slugify(last'.name), Slugs(packages))

\* The first three services, created under one name x, have the slugs x, x-1, x-2.
C3_ThreeOfAName ==
    ({1, 2, 3} \subseteq DOMAIN services
        /\ services[1].name = services[2].name /\ services[2].name = services[3].name)
    => LET x == slugify(services[1].name)
       IN  /\ services[1].slug = x
           /\ services[2].slug = Suffixed(x, 1)
           /\ services[3].slug = Suffixed(x, 2)

\* C3: a creation under a name whose slug is x stores x when no row of that table has
\* it, otherwise x-n for the smallest n >= 1 that no row has; three creations under
\* one name on an empty catalog store x, x-1, x-2.
C3_FirstFreeSuffix == [](C3_ThreeOfAName) /\ [][C3_SlugOfCreated]_vars

C3_Witness ==
    /\ {1, 2, 3} \subseteq DOMAIN services
    /\ services[1].name = services[2].name /\ services[2].name = services[3].name
    /\ services[3].slug = Suffixed(slugify(services[1].name), 2)
    /\ last.op = "create_service" /\ last.ok /\ last.id = 3

(***************************************************************************)
(* Concurrent requests.  Every request runs its call on its own, query by  *)
(* query; the tables are the committed rows, which every query of every    *)
(* request reads (READ COMMITTED).  req[r] is request r: the call, where   *)
(* it stands (pc), its arguments, the model object it loaded (obj), the    *)
(* locals of the slug loop, and its result.  A call whose only write is    *)
(* its last statement commits with that write; delete_category has no      *)
(* transaction.atomic, so each of its statements commits by itself.        *)
(***************************************************************************)
MaxReq == 2

ReqIds == 1..MaxReq
NoRow == [name |-> NoName, slug |-> NoName, parent |-> Null]

Request(op, pc, name, id, ref, obj, slug, counter) ==
    [op |-> op, pc |-> pc, name |-> name, id |-> id, ref |-> ref, obj |-> obj,
     slug |-> slug, counter |-> counter, ok |-> FALSE, err |-> "", moved |-> {}]
Idle == Request("idle", "idle", NoName, 0, Null, NoRow, NoName, 0)

\* `except Exception as e: return ..., str(e)` around the write.
CaughtNever(exc) == FALSE
Caught(exc) == TRUE

\* The request returns (pc "done") or, when nothing catches exc, raises out of the call.
Return(r, ok, err) ==
    req' = [req EXCEPT ![r] = [@ EXCEPT !.pc = "done", !.ok = ok, !.err = err,
                                        !.obj = NoRow, !.slug = NoName, !.counter = 0]]
Raise(r, exc) ==
    req' = [req EXCEPT ![r] = [@ EXCEPT !.pc = IF Caught(exc) THEN "done" ELSE "raised",
                                        !.ok = FALSE, !.err = exc,
                                        !.obj = NoRow, !.slug = NoName, !.counter = 0]]

\* The unique index on slug (SlugField(unique=True)) refuses the write.
SlugIndexRefuses(table, pk, slug) == slug \in SlugsExcluding(table, pk)

\* A foreign key to a category row that is gone.
Dangling(id) == id # Null /\ id \notin DOMAIN categories

StartCreateService(r, name) ==
    /\ req[r].pc = "idle"
    /\ IF Blank(name)
       THEN req' = [req EXCEPT ![r] = [Request("create_service", "done", name, 0, Null, NoRow, NoName, 0)
                                         EXCEPT !.err = "Service name is required"]]
       ELSE req' = [req EXCEPT ![r] = Request("create_service", "probe", name, 0, Null, NoRow,
                                              slugify(name), FirstCounter)]
    /\ UNCHANGED <<categories, services, packages, items, nextCat, nextSvc, nextPkg, last>>
    /\ UNCHANGED others

\* service_edit loads the service, update_service(service, name=name) starts.
StartUpdateService(r, s, name) ==
    /\ req[r].pc = "idle"
    /\ s \in DOMAIN services
    /\ req' = [req EXCEPT ![r] =
                  IF name # services[s].name
                  THEN Request("update_service", "probe", name, s, Null, services[s],
                               slugify(name), FirstCounter)
                  ELSE Request("update_service", "write", name, s, Null, services[s],
                               services[s].slug, 0)]
    /\ UNCHANGED <<categories, services, packages, items, nextCat, nextSvc, nextPkg, last>>
    /\ UNCHANGED others

\* One turn of the slug loop: one `filter(slug=slug)[.exclude(pk=...)].exists()` query.
ProbeSlug(r) ==
    /\ req[r].pc = "probe"
    /\ LET taken == IF req[r].op = "create_service" THEN Slugs(services)
                    ELSE SlugsExcluding(services, req[r].id)
       IN  req' = [req EXCEPT ![r] =
                      IF req[r].slug \in taken
                      THEN [@ EXCEPT !.slug = Suffixed(slugify(req[r].name), req[r].counter),
                                     !.counter = @ + 1]
                      ELSE [@ EXCEPT !.pc = "write"]]
    /\ UNCHANGED <<categories, services, packages, items, nextCat, nextSvc, nextPkg, last>>
    /\ UNCHANGED others

\* get_config() and Service.objects.create(...) of create_service; a refused insert
\* rolls the call's transaction back, the settings row it created included.
InsertService(r) ==
    /\ req[r].pc = "write" /\ req[r].op = "create_service"
    /\ IF SlugIndexRefuses(services, nextSvc, req[r].slug)
       THEN Raise(r, "IntegrityError") /\ UNCHANGED <<services, nextSvc, config>>
       ELSE /\ config' = get_config(config)
            /\ services' = Put(services, nextSvc,
                   [NewServiceRow(ServiceArgs(req[r].name, Null, "fixed", Null, Null),
                                  services, get_config(config))
                    EXCEPT !.slug = req[r].slug])
            /\ nextSvc' = nextSvc + 1
            /\ req' = [req EXCEPT ![r] = [@ EXCEPT !.pc = "done", !.ok = TRUE, !.id = nextSvc,
                                                   !.slug = NoName, !.counter = 0]]
    /\ UNCHANGED <<categories, packages, items, nextCat, nextPkg, last>>
    /\ UNCHANGED <<variants, addons, service_addons, nextVariant, nextAddon>>

\* service.save() of update_service: every field of the loaded object is written.
SaveService(r) ==
    /\ req[r].pc = "write" /\ req[r].op = "update_service"
    /\ IF SlugIndexRefuses(services, req[r].id, req[r].slug)
       THEN Raise(r, "IntegrityError") /\ UNCHANGED services
       ELSE /\ services' = Put(services, req[r].id,
                               [req[r].obj EXCEPT !.name = req[r].name, !.slug = req[r].slug])
            /\ Return(r, TRUE, "")
    /\ UNCHANGED <<categories, packages, items, nextCat, nextSvc, nextPkg, last>>
    /\ UNCHANGED others

\* category_edit loads the category, update_category(category, parent_id=...) starts.
StartUpdateCategory(r, c, parent_id) ==
    /\ req[r].pc = "idle"
    /\ c \in DOMAIN categories
    /\ req' = [req EXCEPT ![r] = Request("update_category", "check", NoName, c, parent_id,
                                         categories[c], NoName, 0)]
    /\ UNCHANGED <<categories, services, packages, items, nextCat, nextSvc, nextPkg, last>>
    /\ UNCHANGED others

\* The parent lookup and the circular-reference check of update_category.
CheckParent(r) ==
    /\ req[r].pc = "check"
    /\ LET c == req[r].id
           parent_id == req[r].ref
       IN  IF ~IdGiven(parent_id) THEN req' = [req EXCEPT ![r] = [@ EXCEPT !.pc = "write", !.ref = Null]]
           ELSE IF DoesNotExist(categories, parent_id) THEN Return(r, FALSE, "Parent category not found")
           ELSE IF parent_id # c /\ RecursionError(categories, c) THEN Raise(r, "RecursionError")
           ELSE IF IsCircular(categories, c, parent_id)
           THEN Return(r, FALSE, "Cannot set descendant as parent")
           ELSE req' = [req EXCEPT ![r] = [@ EXCEPT !.pc = "write"]]
    /\ UNCHANGED <<categories, services, packages, items, nextCat, nextSvc, nextPkg, last>>
    /\ UNCHANGED others

\* category.save() of update_category: the loaded row with the new parent.
SaveCategory(r) ==
    /\ req[r].pc = "write" /\ req[r].op = "update_category"
    /\ IF Dangling(req[r].ref) \/ SlugIndexRefuses(categories, req[r].id, req[r].obj.slug)
       THEN Raise(r, "IntegrityError") /\ UNCHANGED categories
       ELSE /\ categories' = Put(categories, req[r].id, [req[r].obj EXCEPT !.parent = req[r].ref])
            /\ Return(r, TRUE, "")
    /\ UNCHANGED <<services, packages, items, nextCat, nextSvc, nextPkg, last>>
    /\ UNCHANGED others

\* category_delete loads the category, delete_category(category, True) starts.
StartDeleteCategory(r, c) ==
    /\ req[r].pc = "idle"
    /\ c \in DOMAIN categories
    /\ req' = [req EXCEPT ![r] = Request("delete_category", "move_services", NoName, c, Null,
                                         categories[c], NoName, 0)]
    /\ UNCHANGED <<categories, services, packages, items, nextCat, nextSvc, nextPkg, last>>
    /\ UNCHANGED others

\* category.services.update(category=category.parent); category.parent is fetched here.
MoveServicesStep(r) ==
    /\ req[r].pc = "move_services"
    /\ LET c == req[r].id
           target == MoveTarget(req[r].obj)
       IN  IF Dangling(target) THEN Raise(r, "DoesNotExist") /\ UNCHANGED services
           ELSE /\ services' = MoveServices(services, c, target)
                /\ req' = [req EXCEPT ![r] = [@ EXCEPT !.pc = "move_children",
                              !.moved = {<<"service", s>> : s \in {k \in DOMAIN services : services[k].category = c}}]]
    /\ UNCHANGED <<categories, packages, items, nextCat, nextSvc, nextPkg, last>>
    /\ UNCHANGED others

\* category.children.update(parent=category.parent)
MoveChildrenStep(r) ==
    /\ req[r].pc = "move_children"
    /\ LET c == req[r].id
           target == MoveTarget(req[r].obj)
       IN  IF Dangling(target) /\ Children(categories, c) # {}
           THEN Raise(r, "IntegrityError") /\ UNCHANGED categories
           ELSE /\ categories' = MoveChildren(categories, c, target)
                /\ req' = [req EXCEPT ![r] = [@ EXCEPT !.pc = "delete",
                              !.moved = @ \cup {<<"category", k>> : k \in Children(categories, c)}]]
    /\ UNCHANGED <<services, packages, items, nextCat, nextSvc, nextPkg, last>>
    /\ UNCHANGED others

\* category.delete()
DeleteCategoryStep(r) ==
    /\ req[r].pc = "delete"
    /\ categories' = DeleteCategoryRows(categories, req[r].id)
    /\ services' = DetachServices(services, Doomed(categories, req[r].id))
    /\ req' = [req EXCEPT ![r] = [@ EXCEPT !.pc = "done", !.ok = TRUE, !.obj = NoRow, !.moved = {}]]
    /\ UNCHANGED <<packages, items, nextCat, nextSvc, nextPkg, last>>
    /\ UNCHANGED others

\* The catalog the requests meet: two roots, a child of the first, a service in the
\* first root.
RaceCategories ==
    (1 :> [name |-> <<"a">>, slug |-> <<"a">>, parent |-> Null, is_active |-> TRUE]) @@
    (2 :> [name |-> <<"b">>, slug |-> <<"b">>, parent |-> Null, is_active |-> TRUE]) @@
    (3 :> [name |-> <<"a">>, slug |-> <<"a", "-", "1">>, parent |-> 1, is_active |-> TRUE])
RaceServices ==
    (1 :> NewServiceRow(ServiceArgs(<<"a">>, 1, "fixed", Null, Null), Empty, get_config(Empty)))

InitRace ==
    /\ categories = RaceCategories
    /\ services = RaceServices
    /\ packages = Empty
    /\ items = {}
    /\ nextCat = 4
    /\ nextSvc = 2
    /\ nextPkg = 1
    /\ last = NoOutcome
    /\ req = [r \in ReqIds |-> Idle]
    /\ variants = Empty
    /\ addons = Empty
    /\ service_addons = {}
    /\ config = get_config(Empty)
    /\ nextVariant = 1
    /\ nextAddon = 1

RaceNames == {<<"a">>, <<"b">>}

NextRace ==
    \/ \E r \in ReqIds, name \in RaceNames : StartCreateService(r, name)
    \/ \E r \in ReqIds, s \in DOMAIN RaceServices, name \in RaceNames : StartUpdateService(r, s, name)
    \/ \E r \in ReqIds : ProbeSlug(r)
    \/ \E r \in ReqIds : InsertService(r)
    \/ \E r \in ReqIds : SaveService(r)
    \/ \E r \in ReqIds, c \in DOMAIN RaceCategories, parent_id \in DOMAIN RaceCategories :
          StartUpdateCategory(r, c, parent_id)
    \/ \E r \in ReqIds : CheckParent(r)
    \/ \E r \in ReqIds : SaveCategory(r)
    \/ \E r \in ReqIds, c \in DOMAIN RaceCategories : StartDeleteCategory(r, c)
    \/ \E r \in ReqIds : MoveServicesStep(r)
    \/ \E r \in ReqIds : MoveChildrenStep(r)
    \/ \E r \in ReqIds : DeleteCategoryStep(r)

SpecRace == InitRace /\ [][NextRace]_vars

(***************************************************************************)
(* Properties of SpecRace.                                                 *)
(***************************************************************************)
Finished(r) == req[r].pc \in {"done", "raised"}

\* C2: under every interleaving of create_service and update_service(name=...)
\* requests no two stored services have the same slug, and the request the unique
\* index refuses returns an error result (no service, success False) and does not
\* raise out of the call.
C2_UniqueSlugs ==
    /\ \A s1, s2 \in DOMAIN services : s1 # s2 => services[s1].slug # services[s2].slug
    /\ \A r \in ReqIds :
          req[r].op \in {"create_service", "update_service"}
          => /\ req[r].pc # "raised"
             /\ (req[r].err = "IntegrityError"
                 => /\ req[r].pc = "done" /\ ~req[r].ok
                    /\ (req[r].op = "create_service" => req[r].id = 0))

\* A create_service that probed a free slug lost the insert to another request.
C2_Witness ==
    \E r \in ReqIds :
        /\ req[r].op = "create_service" /\ req[r].pc = "done" /\ req[r].err = "IntegrityError"
        /\ \E s \in DOMAIN services \ DOMAIN RaceServices : services[s].name = Strip(req[r].name)

\* C7: no read can find the services of a category under deletion moved while its
\* children are not, nor both moved while the category is still stored.
C7_NoPartialDelete ==
    \A r \in ReqIds :
        req[r].op = "delete_category"
        => /\ ~(/\ req[r].pc = "move_children"
                /\ req[r].moved # {}
                /\ Children(categories, req[r].id) # {})
           /\ ~(/\ req[r].pc = "delete"
                /\ req[r].moved # {}
                /\ req[r].id \in DOMAIN categories)

\* C8: when update_category requests have all finished, no category is its own ancestor.
C8_AcyclicAfterUpdates ==
    (\A r \in ReqIds : req[r].op = "update_category" /\ Finished(r)) => Acyclic(categories)

\* C9: two create_service requests under one name both end with a stored service.
C9_BothStored ==
    \A r1, r2 \in ReqIds :
        (/\ r1 # r2
         /\ req[r1].op = "create_service" /\ req[r2].op = "create_service"
         /\ req[r1].name = req[r2].name
         /\ Finished(r1) /\ Finished(r2))
        => /\ req[r1].ok /\ req[r2].ok
           /\ req[r1].id \in DOMAIN services /\ req[r2].id \in DOMAIN services

(***************************************************************************)
(* Properties of SpecPkg: the services named by a package's items.         *)
(***************************************************************************)
C11_MissingServiceStep ==
    (/\ last'.op \in {"create_package", "update_package"}
     /\ \A i \in 1..Len(last'.ref) : last'.ref[i] # NotAnInt
     /\ \E i \in 1..Len(last'.ref) : DoesNotExist(services, last'.ref[i]))
    => (/\ ~last'.ok
        /\ packages' = packages
        /\ items' = items)

\* C11: create_package and update_package given service_items in which some
\* service_id resolves to no stored service fail and persist nothing: no package,
\* no item, no change to the stored items.
C11_MissingServiceFails == [][C11_MissingServiceStep]_vars

(***************************************************************************)
(* The naming specification: every entity created and renamed, under       *)
(* names that are blank or not.                                            *)
(***************************************************************************)
MaxNamed == 3

\* A name, a whitespace-only name and the empty name.
GivenNames == {<<"a">>, <<" ">>, <<>>}

Named == Created + (nextVariant - 1) + (nextAddon - 1)

VariantKw(has, name, price_adjustment, duration_adjustment) ==
    [has |-> has, name |-> name, price_adjustment |-> price_adjustment,
     duration_adjustment |-> duration_adjustment]

NextNames ==
    \/ \E name \in GivenNames : Named < MaxNamed /\ CreateCategory(name, Null)
    \/ \E name \in GivenNames : Named < MaxNamed /\ CreateService(name, Null, "fixed", Null, Null)
    \/ \E name \in GivenNames, s \in 1..MaxNamed : Named < MaxNamed /\ CreateVariant(s, name, 0, 0)
    \/ \E name \in GivenNames : Named < MaxNamed /\ CreateAddon(name, 0, 0, {1})
    \/ \E name \in GivenNames : Named < MaxNamed /\ CreatePackage(name, <<Item(1, 1)>>)
    \/ \E name \in GivenNames, c \in 1..MaxNamed : UpdateCategory(c, Kw({"name"}, name, Null))
    \/ \E name \in GivenNames, s \in 1..MaxNamed : UpdateService(s, Kw({"name"}, name, Null))
    \/ \E name \in GivenNames, v \in 1..MaxNamed : UpdateVariant(v, VariantKw({"name"}, name, 0, 0))
    \/ \E name \in GivenNames, a \in 1..MaxNamed : UpdateAddon(a, NameKw({"name"}, name), FALSE, {})
    \/ \E name \in GivenNames, p \in 1..MaxNamed : UpdatePackage(p, NameKw({"name"}, name), FALSE, <<>>)

SpecNames == Init /\ [][NextNames]_vars

CreateOps == {"create_service", "create_category", "create_variant", "create_addon", "create_package"}
UpdateOps == {"update_service", "update_category", "update_variant", "update_addon", "update_package"}
RequiredErrors ==
    {"Service name is required", "Category name is required", "Variant name is required",
     "Addon name is required", "Package name is required"}

C12_BlankCreateStep ==
    (last'.op \in CreateOps /\ Strip(last'.name) = <<>>)
    => (/\ ~last'.ok /\ last'.id = 0
        /\ last'.err \in RequiredErrors
        /\ UNCHANGED <<categories, services, packages, items, variants, addons,
                       service_addons, config>>
        /\ UNCHANGED <<nextCat, nextSvc, nextPkg, nextVariant, nextAddon>>)

\* C12: create_service, create_category, create_variant, create_addon and
\* create_package given an empty or whitespace-only name return (None, error) with
\* the 'required' error and leave every table as it was.
C12_BlankNameRejected == [][C12_BlankCreateStep]_vars

\* A whitespace-only variant name was refused for a stored service.
C12_Witness ==
    /\ last.op = "create_variant" /\ ~last.ok /\ last.name = <<" ">>
    /\ last.err = "Variant name is required"
    /\ last.ref \in DOMAIN services

C13_BlankUpdateStep ==
    (last'.op \in UpdateOps /\ Strip(last'.name) = <<>>)
    => (/\ ~last'.ok
        /\ UNCHANGED <<categories, services, packages, items, variants, addons, service_addons>>)

\* C13: update_service, update_category, update_variant, update_addon and
\* update_package given an empty or whitespace-only name fail and leave the stored
\* entity, name and slug included, as it was.
C13_BlankRenameRejected == [][C13_BlankUpdateStep]_vars

(***************************************************************************)
(* Derived values.  A Decimal is modelled by an exact fraction num/den     *)
(* with den > 0; a division by zero gives den = 0, which every later       *)
(* operation keeps: the decimal.DivisionByZero the property would raise.   *)
(***************************************************************************)
Frac(n, d) == IF d < 0 THEN [num |-> 0 - n, den |-> 0 - d] ELSE [num |-> n, den |-> d]
Whole(n) == Frac(n, 1)
Plus(x, y) == Frac(x.num * y.den + y.num * x.den, x.den * y.den)
Minus(x, y) == Frac(x.num * y.den - y.num * x.den, x.den * y.den)
Times(x, y) == Frac(x.num * y.num, x.den * y.den)
Over(x, y) == Frac(x.num * y.den, x.den * y.num)
Raised(x) == x.den = 0
IsZero(x) == x.num = 0 /\ x.den # 0
Same(x, y) == ~Raised(x) /\ ~Raised(y) /\ x.num * y.den = y.num * x.den
AtMost(x, y) == ~Raised(x) /\ ~Raised(y) /\ x.num * y.den <= y.num * x.den
Largest(x, y) == IF AtMost(x, y) THEN y ELSE x

\* Service.effective_tax_rate; cfg is the settings table after get_config().
effective_tax_rateTruthy(svc, cfg) ==
    IF Truthy(svc.tax_rate) THEN svc.tax_rate ELSE cfg[1].default_tax_rate
effective_tax_rate(svc, cfg) ==
    IF svc.tax_rate # Null THEN svc.tax_rate ELSE cfg[1].default_tax_rate

price_with_taxAdded(svc, cfg) ==
    Plus(Whole(svc.price),
         Times(Whole(svc.price), Over(Whole(effective_tax_rate(svc, cfg)), Whole(100))))
price_with_tax(svc, cfg) ==
    IF cfg[1].include_tax_in_price THEN Whole(svc.price)
    ELSE LET tax == Times(Whole(svc.price), Over(Whole(effective_tax_rate(svc, cfg)), Whole(100)))
         IN  Plus(Whole(svc.price), tax)

price_without_tax(svc, cfg) ==
    IF ~cfg[1].include_tax_in_price THEN Whole(svc.price)
    ELSE LET divisor == Plus(Whole(1), Over(Whole(effective_tax_rate(svc, cfg)), Whole(100)))
         IN  Over(Whole(svc.price), divisor)

tax_amount(svc, cfg) == Minus(price_with_tax(svc, cfg), price_without_tax(svc, cfg))

profit(svc, cfg) == Minus(price_without_tax(svc, cfg), Whole(svc.cost))

profit_marginUnguarded(svc, cfg) ==
    Times(Over(profit(svc, cfg), price_without_tax(svc, cfg)), Whole(100))
profit_margin(svc, cfg) ==
    IF IsZero(price_without_tax(svc, cfg)) THEN Whole(0)
    ELSE Times(Over(profit(svc, cfg), price_without_tax(svc, cfg)), Whole(100))

\* `for item in self.items.all(): total += ...` over the item rows of a package.
RECURSIVE Total(_, _, _)
Total(rows, svcs, field) ==
    IF rows = {} THEN 0
    ELSE LET item == CHOOSE i \in rows : TRUE
         IN  svcs[item.service][field] * item.quantity + Total(rows \ {item}, svcs, field)

ItemsOf(its, p) == {i \in its : i.package = p}

original_price(p, its, svcs) == Total(ItemsOf(its, p), svcs, "price")

final_priceDiscountFirst(p, pkgs, its, svcs) ==
    LET original == Whole(original_price(p, its, svcs))
        discount == IF pkgs[p].discount_type = "percentage"
                    THEN Times(original, Over(Whole(pkgs[p].discount_value), Whole(100)))
                    ELSE Whole(pkgs[p].discount_value)
    IN  IF pkgs[p].discount_value # 0 \/ pkgs[p].fixed_price = Null
        THEN Largest(Whole(0), Minus(original, discount))
        ELSE Whole(pkgs[p].fixed_price)
final_price(p, pkgs, its, svcs) ==
    IF pkgs[p].fixed_price # Null THEN Whole(pkgs[p].fixed_price)
    ELSE LET original == Whole(original_price(p, its, svcs))
             discount == IF pkgs[p].discount_type = "percentage"
                         THEN Times(original, Over(Whole(pkgs[p].discount_value), Whole(100)))
                         ELSE Whole(pkgs[p].discount_value)
         IN  Largest(Whole(0), Minus(original, discount))

savings(p, pkgs, its, svcs) ==
    Minus(Whole(original_price(p, its, svcs)), final_price(p, pkgs, its, svcs))

savings_percentage(p, pkgs, its, svcs) ==
    IF original_price(p, its, svcs) = 0 THEN Whole(0)
    ELSE Times(Over(savings(p, pkgs, its, svcs), Whole(original_price(p, its, svcs))), Whole(100))

total_duration(p, its, svcs) == Total(ItemsOf(its, p), svcs, "duration_minutes")

\* What a read of an entity shows: the call and the values of its properties.
Shown(op, id, value) ==
    [op |-> op, ok |-> TRUE, err |-> "", id |-> id, name |-> NoName, ref |-> Null,
     value |-> value]

\* A read of the derived prices of service s; every property calls get_config().
ServiceValues(s) ==
    /\ s \in DOMAIN services
    /\ config' = get_config(config)
    /\ LET svc == services[s]
           cfg == get_config(config)
       IN  last' = Shown("service_values", s,
                         [effective_tax_rate |-> effective_tax_rate(svc, cfg),
                          price_with_tax |-> price_with_tax(svc, cfg),
                          price_without_tax |-> price_without_tax(svc, cfg),
                          tax_amount |-> tax_amount(svc, cfg),
                          profit_margin |-> profit_margin(svc, cfg)])
    /\ UNCHANGED <<categories, services, packages, items, nextCat, nextSvc, nextPkg, req>>
    /\ UNCHANGED <<variants, addons, service_addons, nextVariant, nextAddon>>

\* A read of the derived prices of package p.
PackageValues(p) ==
    /\ p \in DOMAIN packages
    /\ last' = Shown("package_values", p,
                     [original_price |-> original_price(p, items, services),
                      final_price |-> final_price(p, packages, items, services),
                      savings |-> savings(p, packages, items, services),
                      savings_percentage |-> savings_percentage(p, packages, items, services),
                      total_duration |-> total_duration(p, items, services)])
    /\ UNCHANGED <<categories, services, packages, items, nextCat, nextSvc, nextPkg, req>>
    /\ UNCHANGED others

\* settings_save: get_config(), the fields given are set, config.save().
SettingsSave(has, default_tax_rate, default_duration) ==
    /\ config' = Put(config, 1,
                     [get_config(config)[1] EXCEPT
                      !.default_tax_rate = IF "default_tax_rate" \in has
                                           THEN default_tax_rate ELSE @,
                      !.default_duration = IF "default_duration" \in has
                                           THEN default_duration ELSE @])
    /\ last' = Outcome("settings_save", TRUE, "", 1, NoName, Null)
    /\ UNCHANGED <<categories, services, packages, items, nextCat, nextSvc, nextPkg, req>>
    /\ UNCHANGED <<variants, addons, service_addons, nextVariant, nextAddon>>

\* settings_toggle with field = 'include_tax_in_price'.
SettingsToggle ==
    /\ config' = Put(config, 1,
                     [get_config(config)[1] EXCEPT !.include_tax_in_price = ~@])
    /\ last' = Outcome("settings_toggle", TRUE, "", 1, NoName, Null)
    /\ UNCHANGED <<categories, services, packages, items, nextCat, nextSvc, nextPkg, req>>
    /\ UNCHANGED <<variants, addons, service_addons, nextVariant, nextAddon>>

(***************************************************************************)
(* The derived-value specification: the properties are read on a catalog   *)
(* drawn from the values below, while the settings are saved and toggled.  *)
(* Either one service with a price, a cost and a tax rate, or two services *)
(* and a package of them.                                                  *)
(***************************************************************************)
MaxCost == 1
MaxQuantity == 2

TaxRates == {0, 21, 100}
DiscountTypes == {"percentage", "fixed"}
DiscountValues == {0, 1, 50, 150}
Quantities == 1..MaxQuantity

PricedService(name, price, cost, tax_rate, duration_minutes) ==
    [ServiceArgs(name, Null, "fixed", Null, Null) EXCEPT
     !.price = price, !.cost = cost, !.tax_rate = tax_rate,
     !.duration_minutes = duration_minutes]

\* The item rows of package 1: none, service 1, or services 1 and 2.
ItemRows ==
    {{}}
    \cup {{[package |-> 1, service |-> 1, quantity |-> q, order |-> 0]} : q \in Quantities}
    \cup {{[package |-> 1, service |-> 1, quantity |-> q1, order |-> 0],
           [package |-> 1, service |-> 2, quantity |-> q2, order |-> 1]} :
          q1 \in Quantities, q2 \in Quantities}

InitOneService ==
    \E price \in 0..MaxPrice, cost \in 0..MaxCost, tax_rate \in {Null} \cup TaxRates :
        /\ services = (1 :> NewServiceRow(PricedService(<<"a">>, price, cost, tax_rate, 60),
                                          Empty, get_config(Empty)))
        /\ packages = Empty
        /\ items = {}
        /\ nextSvc = 2
        /\ nextPkg = 1

InitOnePackage ==
    \E price1 \in 0..MaxPrice, price2 \in 0..MaxPrice, rows \in ItemRows,
       discount_type \in DiscountTypes, discount_value \in DiscountValues,
       fixed_price \in {Null} \cup 0..MaxCost :
        /\ services =
              (1 :> NewServiceRow(PricedService(<<"a">>, price1, 0, Null, 60),
                                  Empty, get_config(Empty))) @@
              (2 :> NewServiceRow(PricedService(<<"b">>, price2, 0, Null, 30),
                                  Empty, get_config(Empty)))
        /\ packages =
              (1 :> NewPackageRow([PackageArgs(<<"p">>, <<>>) EXCEPT
                                   !.discount_type = discount_type,
                                   !.discount_value = discount_value,
                                   !.fixed_price = fixed_price], Empty))
        /\ items = rows
        /\ nextSvc = 3
        /\ nextPkg = 2

InitDerived ==
    /\ categories = Empty
    /\ nextCat = 1
    /\ last = NoOutcome
    /\ req = Empty
    /\ variants = Empty
    /\ addons = Empty
    /\ service_addons = {}
    /\ config = get_config(Empty)
    /\ nextVariant = 1
    /\ nextAddon = 1
    /\ (InitOneService \/ InitOnePackage)

NextDerived ==
    \/ \E s \in DOMAIN services : ServiceValues(s)
    \/ \E p \in DOMAIN packages : PackageValues(p)
    \/ \E default_tax_rate \in TaxRates : SettingsSave({"default_tax_rate"}, default_tax_rate, 60)
    \/ SettingsToggle

SpecDerived == InitDerived /\ [][NextDerived]_vars

(***************************************************************************)
(* Properties of SpecDerived.                                              *)
(***************************************************************************)
\* The sum over the services 1..n of field * quantity, by the items of package p.
RECURSIVE Worth(_, _, _, _, _)
Worth(n, p, its, svcs, field) ==
    IF n = 0 THEN 0
    ELSE LET bought == {i \in its : i.package = p /\ i.service = n}
             quantity == IF bought = {} THEN 0 ELSE (CHOOSE i \in bought : TRUE).quantity
         IN  (IF n \in DOMAIN svcs THEN svcs[n][field] * quantity ELSE 0)
                 + Worth(n - 1, p, its, svcs, field)

NotBelowZero(n) == IF n < 0 THEN 0 ELSE n

\* The package of the example: prices 30, 50 (twice) and 20 with 15 percent off.
ExampleServices ==
    (1 :> [price |-> 30, duration_minutes |-> 60]) @@
    (2 :> [price |-> 50, duration_minutes |-> 30]) @@
    (3 :> [price |-> 20, duration_minutes |-> 15])
ExampleItems ==
    {[package |-> 1, service |-> 1, quantity |-> 1, order |-> 0],
     [package |-> 1, service |-> 2, quantity |-> 2, order |-> 1],
     [package |-> 1, service |-> 3, quantity |-> 1, order |-> 2]}
ExamplePackages ==
    (1 :> [discount_type |-> "percentage", discount_value |-> 15, fixed_price |-> Null])

C14_Example ==
    /\ original_price(1, ExampleItems, ExampleServices) = 150
    /\ Same(final_price(1, ExamplePackages, ExampleItems, ExampleServices), Frac(255, 2))
    /\ Same(savings(1, ExamplePackages, ExampleItems, ExampleServices), Frac(45, 2))
    /\ total_duration(1, ExampleItems, ExampleServices) = 135

\* C14: with O the sum of price * quantity over a package's items, final_price is
\* fixed_price whenever that is set, otherwise max(0, O - O * discount_value / 100)
\* for a percentage discount and max(0, O - discount_value) for a fixed one; savings
\* is O - final_price and total_duration the sum of duration_minutes * quantity.
C14_PackagePrices ==
    /\ C14_Example
    /\ last.op = "package_values"
       => LET p == last.id
              v == last.value
              O == Worth(nextSvc - 1, p, items, services, "price")
              fixed_price == packages[p].fixed_price
              discount_value == packages[p].discount_value
          IN  /\ v.original_price = O
              /\ fixed_price # Null => Same(v.final_price, Whole(fixed_price))
              /\ (fixed_price = Null /\ packages[p].discount_type = "percentage")
                 => Same(v.final_price, Frac(NotBelowZero(O * (100 - discount_value)), 100))
              /\ (fixed_price = Null /\ packages[p].discount_type = "fixed")
                 => Same(v.final_price, Whole(NotBelowZero(O - discount_value)))
              /\ Same(v.savings, Minus(Whole(O), v.final_price))
              /\ v.total_duration = Worth(nextSvc - 1, p, items, services, "duration_minutes")

\* A package of two services with a discount and a fixed price that differs from
\* every discounted price was read.
C14_Witness ==
    /\ last.op = "package_values"
    /\ packages[last.id].fixed_price = 1
    /\ packages[last.id].discount_value = 50
    /\ Cardinality(ItemsOf(items, last.id)) = 2
    /\ last.value.original_price > 2
    /\ Same(last.value.final_price, Whole(1))

\* C15: profit_margin is 0 whenever price_without_tax is 0 and savings_percentage is
\* 0 whenever original_price is 0 (a package without items included); neither
\* raises a division error.
C15_ZeroDenominators ==
    /\ last.op = "service_values"
       => /\ ~Raised(last.value.profit_margin)
          /\ IsZero(last.value.price_without_tax) => IsZero(last.value.profit_margin)
    /\ last.op = "package_values"
       => /\ ~Raised(last.value.savings_percentage)
          /\ last.value.original_price = 0 => IsZero(last.value.savings_percentage)

\* A service with price 0 and a cost was read with tax included in the price.
C15_Witness ==
    /\ last.op = "service_values"
    /\ services[last.id].price = 0 /\ services[last.id].cost > 0
    /\ config[1].include_tax_in_price
    /\ IsZero(last.value.profit_margin)

\* C16: with r the effective tax rate in 0..100 and price >= 0, include_tax_in_price
\* makes price_with_tax the price and price_without_tax price / (1 + r/100); without
\* it price_without_tax is the price and price_with_tax price * (1 + r/100); always
\* price_without_tax <= price <= price_with_tax and tax_amount is their difference.
C16_TaxSplit ==
    last.op = "service_values"
    => LET v == last.value
           price == services[last.id].price
           r == v.effective_tax_rate
       IN  (price >= 0 /\ r \in 0..100)
           => /\ config[1].include_tax_in_price
                 => /\ Same(v.price_with_tax, Whole(price))
                    /\ Same(v.price_without_tax, Frac(100 * price, 100 + r))
              /\ ~config[1].include_tax_in_price
                 => /\ Same(v.price_without_tax, Whole(price))
                    /\ Same(v.price_with_tax, Frac(price * (100 + r), 100))
              /\ AtMost(v.price_without_tax, Whole(price))
              /\ AtMost(Whole(price), v.price_with_tax)
              /\ Same(v.tax_amount, Minus(v.price_with_tax, v.price_without_tax))
              /\ AtMost(Whole(0), v.tax_amount)

\* A priced service was read at 21 percent with tax not included in the price.
C16_Witness ==
    /\ last.op = "service_values"
    /\ services[last.id].price > 0
    /\ last.value.effective_tax_rate = 21
    /\ ~config[1].include_tax_in_price
    /\ ~Same(last.value.price_with_tax, Whole(services[last.id].price))

C17_ReadStep ==
    last'.op = "service_values"
    => LET svc == services[last'.id]
           settings == get_config(config)[1]
           v == last'.value
           r == IF svc.tax_rate # Null THEN svc.tax_rate ELSE settings.default_tax_rate
       IN  /\ v.effective_tax_rate = r
           /\ Same(v.price_with_tax,
                   IF settings.include_tax_in_price THEN Whole(svc.price)
                   ELSE Frac(svc.price * (100 + r), 100))
           /\ Same(v.price_without_tax,
                   IF settings.include_tax_in_price THEN Frac(100 * svc.price, 100 + r)
                   ELSE Whole(svc.price))

\* C17: effective_tax_rate is the service's own tax_rate whenever that is set, 0
\* included, and the settings' default_tax_rate otherwise; every read of it and of
\* price_with_tax and price_without_tax uses the settings as last saved.
C17_SettingsNotCached == [][C17_ReadStep]_vars

\* A service without a rate of its own was read after the default rate and the
\* include_tax_in_price flag had been changed.
C17_Witness ==
    /\ last.op = "service_values"
    /\ services[last.id].tax_rate = Null
    /\ config[1].default_tax_rate = 100
    /\ ~config[1].include_tax_in_price
    /\ last.value.effective_tax_rate = 100

(***************************************************************************)
(* The settings specification: requests that call get_config(), query by   *)
(* query, the settings endpoints, and the admin registered for the model.  *)
(***************************************************************************)
\* ServicesConfig.get_config() starts: get_or_create(pk=1).
StartGetConfig(r) ==
    /\ req[r].pc = "idle"
    /\ req' = [req EXCEPT ![r] = Request("get_config", "get", NoName, 1, Null, NoRow, NoName, 0)]
    /\ UNCHANGED <<categories, services, packages, items, nextCat, nextSvc, nextPkg, last>>
    /\ UNCHANGED others

\* get_or_create: `self.get(pk=1)`; DoesNotExist leads to the create.
SelectConfig(r) ==
    /\ req[r].pc = "get"
    /\ req' = [req EXCEPT ![r] =
                  IF 1 \in DOMAIN config
                  THEN [@ EXCEPT !.pc = "done", !.ok = TRUE, !.obj = config[1]]
                  ELSE [@ EXCEPT !.pc = "create"]]
    /\ UNCHANGED <<categories, services, packages, items, nextCat, nextSvc, nextPkg, last>>
    /\ UNCHANGED others

\* get_or_create: `self.create(pk=1)`; the primary key refuses a second row, and
\* the IntegrityError leads to a second get.
InsertConfig(r) ==
    /\ req[r].pc = "create"
    /\ IF 1 \in DOMAIN config
       THEN /\ req' = [req EXCEPT ![r] = [@ EXCEPT !.pc = "get_again"]]
            /\ UNCHANGED config
       ELSE /\ config' = Put(config, 1, DefaultConfig)
            /\ req' = [req EXCEPT ![r] = [@ EXCEPT !.pc = "done", !.ok = TRUE,
                                                   !.obj = DefaultConfig]]
    /\ UNCHANGED <<categories, services, packages, items, nextCat, nextSvc, nextPkg, last>>
    /\ UNCHANGED <<variants, addons, service_addons, nextVariant, nextAddon>>

\* get_or_create after the IntegrityError: `self.get(pk=1)`, or the error is raised.
SelectConfigAgain(r) ==
    /\ req[r].pc = "get_again"
    /\ req' = [req EXCEPT ![r] =
                  IF 1 \in DOMAIN config
                  THEN [@ EXCEPT !.pc = "done", !.ok = TRUE, !.obj = config[1]]
                  ELSE [@ EXCEPT !.pc = "raised", !.err = "IntegrityError"]]
    /\ UNCHANGED <<categories, services, packages, items, nextCat, nextSvc, nextPkg, last>>
    /\ UNCHANGED others

\* The delete view and the delete_selected action of ServicesConfigAdmin, a plain
\* ModelAdmin; ServicesConfig does not override delete().
AdminDeleteConfig ==
    /\ 1 \in DOMAIN config
    /\ config' = Drop(config, {1})
    /\ last' = Outcome("admin_delete", TRUE, "", 1, NoName, Null)
    /\ UNCHANGED <<categories, services, packages, items, nextCat, nextSvc, nextPkg, req>>
    /\ UNCHANGED <<variants, addons, service_addons, nextVariant, nextAddon>>

InitConfig ==
    /\ categories = Empty
    /\ services = Empty
    /\ packages = Empty
    /\ items = {}
    /\ nextCat = 1
    /\ nextSvc = 1
    /\ nextPkg = 1
    /\ last = NoOutcome
    /\ req = [r \in ReqIds |-> Idle]
    /\ variants = Empty
    /\ addons = Empty
    /\ service_addons = {}
    /\ config = Empty
    /\ nextVariant = 1
    /\ nextAddon = 1

DurationInputs == {30, 60}

NextConfig ==
    \/ \E r \in ReqIds : StartGetConfig(r)
    \/ \E r \in ReqIds : SelectConfig(r)
    \/ \E r \in ReqIds : InsertConfig(r)
    \/ \E r \in ReqIds : SelectConfigAgain(r)
    \/ \E default_tax_rate \in TaxRates, default_duration \in DurationInputs :
          SettingsSave({"default_tax_rate", "default_duration"}, default_tax_rate, default_duration)
    \/ SettingsToggle
    \/ AdminDeleteConfig

SpecConfig == InitConfig /\ [][NextConfig]_vars

C18_OneRow == DOMAIN config \subseteq {1}

C18_ConfigStep ==
    /\ 1 \in DOMAIN config => 1 \in DOMAIN config'
    /\ \A r \in ReqIds :
          (req[r].op = "get_config" /\ req[r].pc # "done" /\ req'[r].pc = "done")
          => /\ req'[r].obj = config'[1]
             /\ 1 \notin DOMAIN config => config'[1] = DefaultConfig

\* C18: under every interleaving of get_config() and save() at most one settings
\* row exists and it has pk 1; the get_config that finds none creates it with the
\* defaults, every get_config returns the stored row, and the row is never deleted.
C18_Singleton == [](C18_OneRow) /\ [][C18_ConfigStep]_vars

(***************************************************************************)
(* Duplicating a service, with its variants and addon associations.        *)
(***************************************************************************)
\* `service.is_active = not service.is_active`
toggle_service_activeOff(service) == [service EXCEPT !.is_active = FALSE]
toggle_service_active(service) == [service EXCEPT !.is_active = ~@]

\* toggle_service_active(service): save(update_fields=['is_active', 'updated_at']),
\* and the new is_active is returned.
ToggleServiceActive(s) ==
    /\ s \in DOMAIN services
    /\ services' = Put(services, s, toggle_service_active(services[s]))
    /\ last' = Shown("toggle_service_active", s, toggle_service_active(services[s]).is_active)
    /\ UNCHANGED <<categories, packages, items, nextCat, nextSvc, nextPkg, req>>
    /\ UNCHANGED others

\* f"{service.name} (Copy)"
CopyName(name) == name \o <<" ", "(", "C", "o", "p", "y", ")">>

\* The arguments duplicate_service hands to create_service: sku and order are not
\* among them, and is_active is not an argument of create_service.
DuplicateArgs(row, new_name) ==
    [name |-> IF new_name # NoName THEN new_name ELSE CopyName(row.name),
     category_id |-> row.category,
     pricing_type |-> row.pricing_type,
     min_price |-> row.min_price,
     max_price |-> row.max_price,
     price |-> row.price,
     cost |-> row.cost,
     tax_rate |-> row.tax_rate,
     duration_minutes |-> row.duration_minutes,
     is_featured |-> FALSE,
     barcode |-> <<>>,
     order |-> 0,
     sku |-> NoSku,
     description |-> row.description,
     is_bookable |-> row.is_bookable]

\* service.variants.all()
VariantsOf(vars_, s) == {v \in DOMAIN vars_ : vars_[v].service = s}

\* The ways the copies of the variants in `old` take the next ids.
FreshIds(old, first) ==
    {f \in [old -> first..(first + Cardinality(old) - 1)] :
        \A v, w \in old : f[v] = f[w] => v = w}

\* duplicate_service(service, new_name)
DuplicateService(s, new_name) ==
    /\ s \in DOMAIN services
    /\ LET a == DuplicateArgs(services[s], new_name)
           error == CreateServiceError(a, categories)
           old == VariantsOf(variants, s)
       IN  IF error # ""
           THEN /\ last' = Outcome("duplicate_service", FALSE, error, 0, a.name, s)
                /\ UNCHANGED <<services, nextSvc, config, variants, nextVariant, service_addons>>
           ELSE /\ config' = get_config(config)
                /\ services' = Put(services, nextSvc,
                                   NewServiceRow(a, services, get_config(config)))
                /\ nextSvc' = nextSvc + 1
                /\ \E f \in FreshIds(old, nextVariant) :
                      variants' =
                         [v \in DOMAIN variants \cup {f[o] : o \in old} |->
                             IF v \in DOMAIN variants THEN variants[v]
                             ELSE [variants[CHOOSE o \in old : f[o] = v]
                                      EXCEPT !.service = nextSvc]]
                /\ nextVariant' = nextVariant + Cardinality(old)
                /\ service_addons' =
                      service_addons \cup
                      {[service |-> nextSvc, addon |-> l.addon] :
                          l \in {k \in service_addons : k.service = s}}
                /\ last' = Outcome("duplicate_service", TRUE, "", nextSvc, a.name, s)
    /\ UNCHANGED <<categories, packages, items, nextCat, nextPkg, req, addons, nextAddon>>

\* ServiceVariant.final_price and ServiceVariant.final_duration
variant_final_price(svcs, variant) == svcs[variant.service].price + variant.price_adjustment
final_duration(svcs, variant) == svcs[variant.service].duration_minutes + variant.duration_adjustment

(***************************************************************************)
(* The duplication specification: services with variants and addons are    *)
(* created, deactivated and duplicated while the settings are saved.       *)
(***************************************************************************)
MaxDupRows == 3

\* The rows created so far: services, variants and addons.
DupRows == (nextSvc - 1) + (nextVariant - 1) + (nextAddon - 1)

DupDurations == {30, 60}
DupDefaults == {45, 60}
DupSkus == {NoSku, 1}
DupNames == {NoName, <<"b">>}

DupService(duration_minutes, sku) ==
    [ServiceArgs(<<"a">>, Null, "fixed", Null, Null) EXCEPT
     !.price = 1, !.duration_minutes = duration_minutes, !.order = sku, !.sku = sku]

InitDup == InitConfig

NextDup ==
    \/ /\ DupRows < MaxDupRows
       /\ \E duration_minutes \in DupDurations, sku \in DupSkus :
             /\ sku = NoSku \/ \A s \in DOMAIN services : services[s].sku # sku
             /\ CreateServiceWith(DupService(duration_minutes, sku))
    \/ \E s \in DOMAIN services : ToggleServiceActive(s)
    \/ /\ DupRows < MaxDupRows
       /\ \E s \in DOMAIN services : CreateVariant(s, <<"a">>, 1, 15)
    \/ /\ DupRows < MaxDupRows
       /\ \E service_ids \in SUBSET (DOMAIN services) : CreateAddon(<<"p">>, 1, 0, service_ids)
    \/ \E default_duration \in DupDefaults : SettingsSave({"default_duration"}, 21, default_duration)
    \/ /\ DupRows < MaxDupRows
       /\ \E s \in DOMAIN services, new_name \in DupNames : DuplicateService(s, new_name)

SpecDup == InitDup /\ [][NextDup]_vars

(***************************************************************************)
(* Properties of SpecDup.                                                  *)
(***************************************************************************)
\* The step of a duplicate_service call that returned a new service.
Duplicated == last'.op = "duplicate_service" /\ last'.ok /\ nextSvc' = nextSvc + 1

AddonsOf(links, s) == {l.addon : l \in {k \in links : k.service = s}}

CopiedFields ==
    {"price", "cost", "tax_rate", "pricing_type", "min_price", "max_price",
     "duration_minutes", "is_active", "order", "sku", "category"}

C19_DuplicateStep ==
    Duplicated =>
        LET s == last'.ref
            n == last'.id
        IN  /\ n \notin DOMAIN services
            /\ n # s
            /\ \A o \in DOMAIN services : services'[n].slug # services[o].slug
            /\ \A field \in CopiedFields : services'[n][field] = services[s][field]
            /\ services'[n].is_featured = FALSE
            /\ services'[n].barcode = <<>>
            /\ AddonsOf(service_addons', n) = AddonsOf(service_addons', s)
            /\ services'[s] = services[s]
            /\ AddonsOf(service_addons', s) = AddonsOf(service_addons, s)

\* C19: duplicate_service(s) creates a service with another id and a fresh slug whose
\* scalar fields, is_active, order and sku among them, equal those of s, except
\* is_featured (false) and barcode (empty), attached to the same addons; s is unchanged.
C19_DuplicateCopiesFields == [][C19_DuplicateStep]_vars

C20_DuplicateStep ==
    Duplicated =>
        LET s == last'.ref
            n == last'.id
            old == VariantsOf(variants, s)
            new == VariantsOf(variants', n)
        IN  /\ new \cap DOMAIN variants = {}
            /\ Cardinality(new) = Cardinality(old)
            /\ \A v \in old :
                  /\ variants'[v] = variants[v]
                  /\ \E w \in new :
                        /\ variants'[w].name = variants[v].name
                        /\ variants'[w].price_adjustment = variants[v].price_adjustment
                        /\ variants'[w].duration_adjustment = variants[v].duration_adjustment
                        /\ variant_final_price(services', variants'[w])
                              = variant_final_price(services', variants'[v])
                        /\ final_duration(services', variants'[w])
                              = final_duration(services', variants'[v])

\* C20: whatever default_duration the settings hold, duplicate_service(s) creates for
\* every variant of s one variant of the new service with a fresh id, the same name and
\* adjustments and the same final_price and final_duration; the new service has as many
\* variants as s, whose own variants are unchanged.
C20_DuplicateKeepsVariants == [][C20_DuplicateStep]_vars

(***************************************************************************)
(* Queries: search_services.                                               *)
(***************************************************************************)
\* The text a sku number stands for; a NULL sku has none.
SkuText(sku) == IF sku = Null THEN <<>> ELSE <<"q">> \o Digits(sku)

\* <column>__icontains=query: query occurs in the text, letter case ignored.
icontains(text, query) ==
    LET t == [i \in 1..Len(text) |-> Lower(text[i])]
        q == [i \in 1..Len(query) |-> Lower(query[i])]
    IN  \E i \in 1..(Len(t) - Len(q) + 1) : SubSeq(t, i, i + Len(q) - 1) = q

\* Q(name__icontains) | Q(description__icontains) | Q(sku__icontains) | Q(barcode__icontains)
TextMatches(row, query) ==
    \/ icontains(row.name, query)
    \/ icontains(row.description, query)
    \/ row.sku # Null /\ icontains(SkuText(row.sku), query)
    \/ icontains(row.barcode, query)

\* An Optional[bool] argument is the set of the values it allows: None is the empty set.
NoFlag == {}
FlagGiven(flag) == flag # NoFlag

\* The ids the category filter keeps, or Null when the filter is not applied:
\* `if category_id:` and `except ServiceCategory.DoesNotExist: pass`.
CategoryIds(cats, category_id) ==
    IF ~IdGiven(category_id) \/ DoesNotExist(cats, category_id) THEN {Null}
    ELSE Range(get_descendants(cats, category_id)) \cup {category_id}

CategoryFilterApplied(cats, category_id) ==
    IdGiven(category_id) /\ ~DoesNotExist(cats, category_id)

\* The arguments of search_services.
SearchArgs(query, category_id, is_bookable, is_active, min_price, max_price) ==
    [query |-> query, category_id |-> category_id, is_bookable |-> is_bookable,
     is_active |-> is_active, min_price |-> min_price, max_price |-> max_price]

\* search_services(...): the rows of the queryset (their order, by name, left out).
search_services(a, svcs, cats) ==
    {s \in DOMAIN svcs :
        /\ FlagGiven(a.is_active) => svcs[s].is_active \in a.is_active
        /\ a.query # <<>> => TextMatches(svcs[s], a.query)
        /\ CategoryFilterApplied(cats, a.category_id)
              => svcs[s].category \in CategoryIds(cats, a.category_id)
        /\ FlagGiven(a.is_bookable) => svcs[s].is_bookable \in a.is_bookable
        /\ a.min_price # Null => svcs[s].price >= a.min_price
        /\ a.max_price # Null => svcs[s].price <= a.max_price}

\* A call of search_services; get_descendants raises RecursionError on a cycle.
SearchServices(a) ==
    /\ last' = IF CategoryFilterApplied(categories, a.category_id)
                  /\ RecursionError(categories, a.category_id)
               THEN [Shown("search_services", 0, [args |-> a, rows |-> {}])
                        EXCEPT !.ok = FALSE, !.err = "RecursionError"]
               ELSE Shown("search_services", 0,
                          [args |-> a, rows |-> search_services(a, services, categories)])
    /\ UNCHANGED <<categories, services, packages, items, nextCat, nextSvc, nextPkg, req>>
    /\ UNCHANGED others

(***************************************************************************)
(* The search specification: a catalog of categories and priced services   *)
(* is built and searched.                                                  *)
(***************************************************************************)
MaxSearchCat == 2
MaxSearchSvc == 2

SearchPrices == {25, 75}
\* The filters of a call besides the category: the defaults, a text, the two flags,
\* a price range.
SearchFilters ==
    {SearchArgs(<<>>, Null, NoFlag, {TRUE}, Null, Null),
     SearchArgs(<<"A">>, Null, NoFlag, NoFlag, Null, Null),
     SearchArgs(<<>>, Null, {TRUE}, {FALSE}, Null, Null),
     SearchArgs(<<>>, Null, NoFlag, {TRUE}, 50, 100)}

SearchService(name, category_id, price, is_bookable) ==
    [ServiceArgs(name, category_id, "fixed", Null, Null) EXCEPT
     !.price = price, !.is_bookable = is_bookable]

NextSearch ==
    \/ /\ nextCat <= MaxSearchCat
       /\ \E parent_id \in {Null} \cup 1..MaxSearchCat : CreateCategory(<<"p">>, parent_id)
    \/ /\ nextSvc <= MaxSearchSvc
       /\ \E name \in {<<"a">>, <<"b">>}, category_id \in {Null} \cup 1..MaxSearchCat,
             price \in SearchPrices :
             CreateServiceWith(SearchService(name, category_id, price, price = 75))
    \/ \E s \in DOMAIN services : ToggleServiceActive(s)
    \/ \E a \in SearchFilters, category_id \in {Null} \cup 0..(MaxSearchCat + 1) :
          SearchServices([a EXCEPT !.category_id = category_id])

SpecSearch == InitConfig /\ [][NextSearch]_vars

(***************************************************************************)
(* Properties of SpecSearch.                                               *)
(***************************************************************************)
Searched == last'.op = "search_services" /\ last'.ok

\* The filters of a search that service row satisfies, the category filter being
\* "in the subtree of category_id" for every category_id given.
SatisfiesAll(row, a, cats) ==
    /\ FlagGiven(a.is_active) => row.is_active \in a.is_active
    /\ a.query # <<>> => TextMatches(row, a.query)
    /\ FlagGiven(a.is_bookable) => row.is_bookable \in a.is_bookable
    /\ a.min_price # Null => row.price >= a.min_price
    /\ a.max_price # Null => row.price <= a.max_price
    /\ IdGiven(a.category_id) => Below(cats, row.category, a.category_id)

C21_SearchStep ==
    Searched =>
        last'.value.rows =
            {s \in DOMAIN services : SatisfiesAll(services[s], last'.value.args, categories)}

\* C21: search_services returns exactly the services that satisfy every filter given;
\* for every category_id given, no returned service lies outside that category's subtree.
C21_SearchIsConjunction == [][C21_SearchStep]_vars

(***************************************************************************)
(* Reads of the category hierarchy.                                        *)
(***************************************************************************)
\* The row the walk `ancestor = ancestor.parent` stands on after `steps` steps.
RECURSIVE Climb(_, _, _)
Climb(cats, ancestor, steps) ==
    IF ancestor = Null \/ steps = 0 THEN ancestor
    ELSE Climb(cats, cats[ancestor].parent, steps - 1)

\* `while ancestor:` never ends: the walk from c is still on a row after as many
\* steps as there are rows.
NeverEnds(cats, c) == Climb(cats, cats[c].parent, Cardinality(DOMAIN cats)) # Null

\* ServiceCategory.get_ancestors: `ancestors.insert(0, ancestor)` up to the root.
RECURSIVE AncestorsFrom(_, _, _)
AncestorsFrom(cats, ancestor, ancestors) ==
    IF ancestor = Null THEN ancestors
    ELSE AncestorsFrom(cats, cats[ancestor].parent, <<ancestor>> \o ancestors)

get_ancestorsAppended(cats, c) ==
    LET up == AncestorsFrom(cats, cats[c].parent, <<>>)
    IN  [i \in 1..Len(up) |-> up[Len(up) + 1 - i]]
get_ancestors(cats, c) == AncestorsFrom(cats, cats[c].parent, <<>>)

\* A call that ended in an exception instead of a value.
Failed(op, id, err) == [Shown(op, id, <<>>) EXCEPT !.ok = FALSE, !.err = err]

\* category.get_descendants(): the recursion has no guard against a cycle.
GetDescendants(c) ==
    /\ c \in DOMAIN categories
    /\ last' = IF RecursionError(categories, c)
               THEN Failed("get_descendants", c, "RecursionError")
               ELSE Shown("get_descendants", c, get_descendants(categories, c))
    /\ UNCHANGED <<categories, services, packages, items, nextCat, nextSvc, nextPkg, req>>
    /\ UNCHANGED others

\* category.get_ancestors(): on a cycle the list grows until memory is exhausted.
GetAncestors(c) ==
    /\ c \in DOMAIN categories
    /\ last' = IF NeverEnds(categories, c)
               THEN Failed("get_ancestors", c, "MemoryError")
               ELSE Shown("get_ancestors", c, get_ancestors(categories, c))
    /\ UNCHANGED <<categories, services, packages, items, nextCat, nextSvc, nextPkg, req>>
    /\ UNCHANGED others

(***************************************************************************)
(* The hierarchy specification: categories are created and re-parented by  *)
(* concurrent update_category requests, and the hierarchy is read.         *)
(***************************************************************************)
MaxTreeCat == 3

\* Two update_category requests at a time.
TreeReqIds == {1, 2}

NextTree ==
    \/ /\ nextCat <= MaxTreeCat
       /\ \E parent_id \in {Null} \cup DOMAIN categories : CreateCategory(<<"p">>, parent_id)
    \/ \E r \in TreeReqIds, c \in DOMAIN categories, parent_id \in DOMAIN categories :
          StartUpdateCategory(r, c, parent_id)
    \/ \E r \in TreeReqIds : CheckParent(r)
    \/ \E r \in TreeReqIds : SaveCategory(r)
    \/ \E c \in DOMAIN categories : GetDescendants(c)
    \/ \E c \in DOMAIN categories : GetAncestors(c)

SpecTree == InitConfig /\ [][NextTree]_vars

(***************************************************************************)
(* Properties of SpecTree.                                                 *)
(***************************************************************************)
\* The step is a read by op: the requests in flight leave `last` alone.
Read(op) == last'.op = op /\ last' # last

\* The categories that have c as an ancestor.
Under(cats, c) == {k \in DOMAIN cats : k # c /\ Below(cats, k, c)}

\* seq lists the set S, each member once.
ListsOnce(seq, S) == Range(seq) = S /\ Len(seq) = Cardinality(S)

\* Depth-first pre-order: every category is followed at once by all that lie under it.
PreOrder(seq, cats) ==
    \A i \in 1..Len(seq) :
        LET n == Cardinality(Under(cats, seq[i]) \cap Range(seq))
        IN  /\ i + n <= Len(seq)
            /\ {seq[j] : j \in (i + 1)..(i + n)} = Under(cats, seq[i]) \cap Range(seq)

C22_ReadStep ==
    Read("get_descendants") =>
        /\ last'.ok
        /\ last'.id \notin Range(last'.value)
        /\ Acyclic(categories) =>
              /\ ListsOnce(last'.value, Under(categories, last'.id))
              /\ PreOrder(last'.value, categories)

\* C22: for every stored parent relation, a cyclic one included, get_descendants(c)
\* returns, and what it returns never contains c; on an acyclic graph it lists every
\* category that has c as an ancestor once, in depth-first pre-order.
C22_DescendantsAlwaysReturn == [][C22_ReadStep]_vars

\* path runs from a root down to c, each row the parent of the next.
RootPath(path, cats) ==
    /\ cats[path[1]].parent = Null
    /\ \A i \in 2..Len(path) : cats[path[i]].parent = path[i - 1]

C23_ReadStep ==
    (Read("get_ancestors") /\ Acyclic(categories)) =>
        LET c == last'.id
            ancestors == last'.value
        IN  /\ last'.ok
            /\ RootPath(Append(ancestors, c), categories)
            /\ ancestors = <<>> <=> categories[c].parent = Null
            /\ \A d \in DOMAIN categories :
                  d \in Range(ancestors) <=> c \in Range(get_descendants(categories, d))

\* C23: in an acyclic graph get_ancestors(c) followed by c is the path from the root to
\* c; it is empty exactly when c has no parent, and d is among the ancestors of c
\* exactly when c is among the descendants of d.
C23_AncestorsAreRootPath == [][C23_ReadStep]_vars

C23_Witness ==
    /\ last.op = "get_ancestors" /\ last.ok
    /\ Len(last.value) = 2
    /\ Acyclic(categories)

(***************************************************************************)
(* The ownership specification: services with variants, addons and         *)
(* packages are created and deleted, one call at a time.                   *)
(***************************************************************************)
MaxOwnRows == 4

\* The rows created so far: services, variants, addons and packages.
OwnRows == (nextSvc - 1) + (nextVariant - 1) + (nextAddon - 1) + (nextPkg - 1)

\* The item lists given: none, one item of the first or second service or of an id
\* no service has, and the first two services together.
OwnServiceIds == {1, 2, MaxOwnRows + 1}
OwnItems == {Item(service_id, 1) : service_id \in OwnServiceIds}
OwnItemLists == {<<>>, <<Item(1, 1), Item(2, 1)>>} \cup {<<item>> : item \in OwnItems}

NextOwn ==
    \/ OwnRows < MaxOwnRows /\ CreateService(<<"a">>, Null, "fixed", Null, Null)
    \/ \E s \in DOMAIN services : DeleteService(s)
    \/ /\ OwnRows < MaxOwnRows
       /\ \E s \in DOMAIN services : CreateVariant(s, <<"a">>, 1, 15)
    \/ \E v \in DOMAIN variants : DeleteVariant(v)
    \/ /\ OwnRows < MaxOwnRows
       /\ \E service_ids \in SUBSET (DOMAIN services) : CreateAddon(<<"p">>, 1, 0, service_ids)
    \/ /\ OwnRows < MaxOwnRows
       /\ \E service_items \in OwnItemLists : CreatePackage(<<"p">>, service_items)
    \/ \E p \in DOMAIN packages, hasItems \in BOOLEAN, service_items \in OwnItemLists :
          UpdatePackage(p, NameKw({}, NoName), hasItems, service_items)
    \/ \E p \in DOMAIN packages : DeletePackage(p)

SpecOwn == InitConfig /\ [][NextOwn]_vars

(***************************************************************************)
(* Properties of SpecOwn.                                                  *)
(***************************************************************************)
NoDangling ==
    /\ \A v \in DOMAIN variants : variants[v].service \in DOMAIN services
    /\ \A i \in items : i.service \in DOMAIN services /\ i.package \in DOMAIN packages

C24_DeleteStep ==
    /\ (last'.op = "delete_service" /\ last'.ok) =>
          /\ VariantsOf(variants', last'.id) = {}
          /\ \A i \in items' : i.service # last'.id
          /\ addons' = addons
          /\ packages' = packages
    /\ (last'.op = "delete_package" /\ last'.ok) =>
          \A i \in items' : i.package # last'.id

\* C24: in every state reached by service-layer calls every variant and every package
\* item references a stored service and every package item a stored package;
\* delete_service(s) removes the variants and package items of s and leaves the addons
\* and packages in place, and delete_package(p) removes the items of p.
C24_NoDanglingOwnership == [](NoDangling) /\ [][C24_DeleteStep]_vars

\* A service was deleted whose variant and package item went with it, while the
\* package and the addon attached to it are still stored.
C24_Witness ==
    /\ last.op = "delete_service" /\ last.ok
    /\ nextVariant > 1 /\ variants = Empty
    /\ packages # Empty /\ items = {}
    /\ addons # Empty /\ service_addons = {}

(***************************************************************************)
(* Variant requests, query by query.  create_variant and update_variant    *)
(* run in autocommit mode; the write is inside `try ... except Exception`. *)
(***************************************************************************)
\* unique_together = ['service', 'name']: the index refuses the write.
VariantIndexRefuses(vars_, s, name, pk) ==
    \E v \in DOMAIN vars_ : v # pk /\ vars_[v].service = s /\ vars_[v].name = name

\* create_variant(service, name) up to its exists() query.
StartCreateVariant(r, s, name) ==
    /\ req[r].pc = "idle"
    /\ s \in DOMAIN services
    /\ req' = [req EXCEPT ![r] =
                  IF Blank(name)
                  THEN [Request("create_variant", "done", name, 0, s, NoRow, NoName, 0)
                           EXCEPT !.err = "Variant name is required"]
                  ELSE IF VariantNameTaken(variants, s, Strip(name), 0)
                  THEN [Request("create_variant", "done", name, 0, s, NoRow, NoName, 0)
                           EXCEPT !.err = "A variant with this name already exists"]
                  ELSE Request("create_variant", "insert", name, 0, s, NoRow, NoName, 0)]
    /\ UNCHANGED <<categories, services, packages, items, nextCat, nextSvc, nextPkg, last>>
    /\ UNCHANGED others

\* ServiceVariant.objects.create(service=service, name=name.strip(), ...)
InsertVariant(r) ==
    /\ req[r].pc = "insert" /\ req[r].op = "create_variant"
    /\ LET s == req[r].ref
           name == Strip(req[r].name)
       IN  IF s \notin DOMAIN services \/ VariantIndexRefuses(variants, s, name, 0)
           THEN Raise(r, "IntegrityError") /\ UNCHANGED <<variants, nextVariant>>
           ELSE /\ variants' = Put(variants, nextVariant,
                                   [service |-> s, name |-> name,
                                    price_adjustment |-> 0, duration_adjustment |-> 0,
                                    order |-> 0, is_active |-> TRUE])
                /\ nextVariant' = nextVariant + 1
                /\ req' = [req EXCEPT ![r] = [@ EXCEPT !.pc = "done", !.ok = TRUE,
                                                       !.id = nextVariant]]
    /\ UNCHANGED <<categories, services, packages, items, nextCat, nextSvc, nextPkg, last>>
    /\ UNCHANGED <<addons, service_addons, config, nextAddon>>

\* update_variant(variant, name=name) up to its exists() query; variant is the row
\* the view loaded.
StartUpdateVariant(r, v, name) ==
    /\ req[r].pc = "idle"
    /\ v \in DOMAIN variants
    /\ req' = [req EXCEPT ![r] =
                  IF VariantNameTaken(variants, variants[v].service, name, v)
                  THEN [Request("update_variant", "done", name, v, variants[v].service,
                                NoRow, NoName, 0)
                           EXCEPT !.err = "A variant with this name already exists"]
                  ELSE Request("update_variant", "save", name, v, variants[v].service,
                               variants[v], NoName, 0)]
    /\ UNCHANGED <<categories, services, packages, items, nextCat, nextSvc, nextPkg, last>>
    /\ UNCHANGED others

\* variant.save() of update_variant: the loaded row with the new name.
SaveVariant(r) ==
    /\ req[r].pc = "save" /\ req[r].op = "update_variant"
    /\ IF VariantIndexRefuses(variants, req[r].ref, req[r].name, req[r].id)
       THEN Raise(r, "IntegrityError") /\ UNCHANGED variants
       ELSE /\ variants' = Put(variants, req[r].id, [req[r].obj EXCEPT !.name = req[r].name])
            /\ Return(r, TRUE, "")
    /\ UNCHANGED <<categories, services, packages, items, nextCat, nextSvc, nextPkg, last>>
    /\ UNCHANGED <<addons, service_addons, config, nextVariant, nextAddon>>

\* The response is sent: the worker is free for the next request.
Respond(r) ==
    /\ req[r].pc = "done"
    /\ req' = [req EXCEPT ![r] = Idle]
    /\ UNCHANGED <<categories, services, packages, items, nextCat, nextSvc, nextPkg, last>>
    /\ UNCHANGED others

(***************************************************************************)
(* The variant specification: two workers serve create_variant and         *)
(* update_variant requests, one after another and concurrently, while the  *)
(* services are duplicated.                                                *)
(***************************************************************************)
MaxVarRows == 4

\* The rows created so far: services and variants.
VarRows == (nextSvc - 1) + (nextVariant - 1)

VariantNames == {<<"a">>, <<"b">>}
VariantReqIds == {1, 2}

NextVariants ==
    \/ nextSvc = 1 /\ CreateService(<<"a">>, Null, "fixed", Null, Null)
    \/ \E s \in DOMAIN services :
          /\ VarRows + 1 + Cardinality(VariantsOf(variants, s)) <= MaxVarRows
          /\ DuplicateService(s, NoName)
    \/ /\ VarRows < MaxVarRows
       /\ \E r \in VariantReqIds, s \in DOMAIN services, name \in VariantNames :
             StartCreateVariant(r, s, name)
    \/ \E r \in VariantReqIds : InsertVariant(r)
    \/ \E r \in VariantReqIds, v \in DOMAIN variants, name \in VariantNames :
          StartUpdateVariant(r, v, name)
    \/ \E r \in VariantReqIds : SaveVariant(r)
    \/ \E r \in VariantReqIds : Respond(r)

SpecVariants == InitConfig /\ [][NextVariants]_vars

(***************************************************************************)
(* Properties of SpecVariants.                                             *)
(***************************************************************************)
UniqueVariantNames ==
    \A v, w \in DOMAIN variants :
        (v # w /\ variants[v].service = variants[w].service)
        => variants[v].name # variants[w].name

\* Another variant than pk of service s is stored under `name`.
NameInUse(s, name, pk) ==
    \E w \in DOMAIN variants : w # pk /\ variants[w].service = s /\ variants[w].name = name

\* The name a call asks for: create_variant gives the variant the stripped text.
NameGiven(op, name) == IF op = "create_variant" THEN Strip(name) ELSE name

AlreadyExists == "A variant with this name already exists"

C25_CallStep ==
    \A r \in VariantReqIds :
        (/\ req[r].pc = "idle" /\ req'[r].pc # "idle"
         /\ NameInUse(req'[r].ref, NameGiven(req'[r].op, req'[r].name), req'[r].id))
        => (/\ req'[r].pc = "done" /\ ~req'[r].ok
            /\ req'[r].err = AlreadyExists
            /\ variants' = variants)

\* C25: under every interleaving of create_variant, update_variant and
\* duplicate_service no two variants of one service have the same name; a call given a
\* name another variant of the service holds returns the 'already exists' error and
\* writes nothing, while variants of different services may share a name.
C25_VariantNamesUnique == [](UniqueVariantNames) /\ [][C25_CallStep]_vars

\* The unique index refused a racing request, a call was refused with the message,
\* and two services hold a variant of the same name.
C25_Witness ==
    /\ \E r \in VariantReqIds : req[r].pc = "done" /\ req[r].err = "IntegrityError"
    /\ \E r \in VariantReqIds : req[r].pc = "done" /\ req[r].err = AlreadyExists
    /\ \E v, w \in DOMAIN variants :
          variants[v].service # variants[w].service /\ variants[v].name = variants[w].name

(***************************************************************************)
(* Properties of SpecDup: toggle_service_active.                           *)
(***************************************************************************)
C26_ToggleStep ==
    (last'.op = "toggle_service_active" /\ last' # last) =>
        LET s == last'.id
        IN  /\ services'[s].is_active = ~services[s].is_active
            /\ last'.value = services'[s].is_active
            /\ [services'[s] EXCEPT !.is_active = services[s].is_active] = services[s]
            /\ \A o \in DOMAIN services : o # s => services'[o] = services[o]
            /\ DOMAIN services' = DOMAIN services
            /\ toggle_service_active(services'[s]) = services[s]
            /\ UNCHANGED <<categories, packages, items, variants, addons, service_addons, config>>

\* C26: toggle_service_active(s) flips the stored is_active of s and returns the new
\* value, writes no other field of s and no other entity, and applied a second time
\* restores the original is_active.
C26_ToggleFlips == [][C26_ToggleStep]_vars

\* A service with a variant was deactivated.
C26_Witness ==
    /\ last.op = "toggle_service_active"
    /\ last.value = FALSE
    /\ ~services[last.id].is_active
    /\ VariantsOf(variants, last.id) # {}

(***************************************************************************)
(* get_category_tree.                                                      *)
(***************************************************************************)
\* ServiceCategory.service_count: self.services.filter(is_active=True).count()
service_countAll(svcs, c) == Cardinality({s \in DOMAIN svcs : svcs[s].category = c})
service_count(svcs, c) ==
    Cardinality({s \in DOMAIN svcs : svcs[s].category = c /\ svcs[s].is_active})

\* ServiceCategory.objects.filter(parent=parent, is_active=True)
ActiveChildren(cats, parent) ==
    {k \in DOMAIN cats : cats[k].parent = parent /\ cats[k].is_active}

\* build_tree(parent): one node for every active child of parent, holding the tree
\* built under that child.
RECURSIVE build_tree(_, _, _)
RECURSIVE NodesOf(_, _, _)
NodesOf(cats, svcs, kids) ==
    IF kids = <<>> THEN <<>>
    ELSE <<[id |-> Head(kids),
            name |-> cats[Head(kids)].name,
            slug |-> cats[Head(kids)].slug,
            service_count |-> service_count(svcs, Head(kids)),
            children |-> build_tree(cats, svcs, Head(kids))]>>
         \o NodesOf(cats, svcs, Tail(kids))
build_tree(cats, svcs, parent) == NodesOf(cats, svcs, InOrder(ActiveChildren(cats, parent)))

\* get_category_tree(): build_tree() from parent = None.
GetCategoryTree ==
    /\ last' = Shown("get_category_tree", 0, build_tree(categories, services, Null))
    /\ UNCHANGED <<categories, services, packages, items, nextCat, nextSvc, nextPkg, req>>
    /\ UNCHANGED others

(***************************************************************************)
(* The tree specification: categories and services are created, activated  *)
(* and deactivated, and the tree is read.                                  *)
(***************************************************************************)
MaxForestRows == 4

\* The rows created so far: categories and services.
ForestRows == (nextCat - 1) + (nextSvc - 1)

\* update_category(category, is_active=...)
ActiveKw(is_active) == [has |-> {"is_active"}, is_active |-> is_active]

NextForest ==
    \/ /\ ForestRows < MaxForestRows
       /\ \E parent_id \in {Null} \cup DOMAIN categories : CreateCategory(<<"p">>, parent_id)
    \/ \E c \in DOMAIN categories, is_active \in BOOLEAN : UpdateCategory(c, ActiveKw(is_active))
    \/ /\ ForestRows < MaxForestRows
       /\ \E category_id \in {Null} \cup DOMAIN categories :
             CreateService(<<"a">>, category_id, "fixed", Null, Null)
    \/ \E s \in DOMAIN services : ToggleServiceActive(s)
    \/ GetCategoryTree

SpecForest == InitConfig /\ [][NextForest]_vars

(***************************************************************************)
(* Properties of SpecForest.                                               *)
(***************************************************************************)
\* c is active and so is every category from c up to a root.
RECURSIVE ActiveToRoot(_, _, _)
ActiveToRoot(cats, c, steps) ==
    /\ steps > 0
    /\ cats[c].is_active
    /\ cats[c].parent = Null \/ ActiveToRoot(cats, cats[c].parent, steps - 1)

Visible(cats) == {c \in DOMAIN cats : ActiveToRoot(cats, c, Cardinality(DOMAIN cats))}

\* Every node of a forest, each before the nodes under it.
RECURSIVE Nodes(_)
Nodes(forest) ==
    IF forest = <<>> THEN <<>>
    ELSE <<Head(forest)>> \o Nodes(Head(forest).children) \o Nodes(Tail(forest))

Ids(forest) == [i \in 1..Len(forest) |-> forest[i].id]

C27_TreeStep ==
    (last'.op = "get_category_tree" /\ (last.op = "get_category_tree" => last' # last)) =>
        LET forest == last'.value
            nodes == Nodes(forest)
        IN  /\ Range(Ids(forest)) =
                  {c \in DOMAIN categories : categories[c].is_active /\ categories[c].parent = Null}
            /\ ListsOnce(Ids(nodes), Visible(categories))
            /\ \A i \in 1..Len(nodes) :
                  /\ Range(Ids(nodes[i].children)) =
                        {c \in Visible(categories) : categories[c].parent = nodes[i].id}
                  /\ nodes[i].service_count =
                        Cardinality({s \in DOMAIN services :
                                        /\ services[s].category = nodes[i].id
                                        /\ services[s].is_active})
            /\ UNCHANGED <<categories, services, packages, items, variants, addons,
                           service_addons, config>>

\* C27: get_category_tree returns a forest whose roots are the active categories without
\* parent and in which every active category whose ancestors are all active appears
\* once, as a child of its parent's node; inactive categories and what lies beneath them
\* do not appear; service_count is the number of active services assigned to the
\* category itself; nothing stored changes.  The subscript names last.op first: a
\* step that shows another call than the one before is no stuttering step.
C27_TreeOfActiveCategories == [][C27_TreeStep]_<<last.op, vars>>

\* The tree shows a category with one active service and hides an active category
\* that lies under an inactive one.
C27_Witness ==
    /\ last.op = "get_category_tree"
    /\ last.value = build_tree(categories, services, Null)
    /\ \E i \in 1..Len(last.value) : last.value[i].service_count = 1
    /\ \E c \in DOMAIN categories :
          /\ categories[c].is_active
          /\ categories[c].parent # Null
          /\ ~categories[categories[c].parent].is_active

(***************************************************************************)
(* Properties of SpecOwn: the items of a package.                          *)
(***************************************************************************)
C28_PackageStep ==
    /\ (last'.op = "create_package" /\ last'.ref = <<>>) =>
          (~last'.ok /\ packages' = packages /\ items' = items)
    /\ (last'.op \in {"create_package", "update_package"} /\ last'.ok) =>
          (last'.id \in DOMAIN packages' /\ ItemsOf(items', last'.id) # {})

\* C28: create_package with an empty service_items list is rejected, and the package of
\* every successful create_package or update_package call has at least one item when
\* the call returns, whatever the service_items list was.
C28_PackagesHaveItems == [][C28_PackageStep]_vars

(***************************************************************************)
(* The duration specification: services are created and duplicated while   *)
(* default_duration is saved.                                              *)
(***************************************************************************)
NextDuration ==
    \/ /\ nextSvc <= MaxDupRows
       /\ \E duration_minutes \in DupDurations :
             CreateServiceWith(DupService(duration_minutes, NoSku))
    \/ \E default_duration \in DupDefaults : SettingsSave({"default_duration"}, 21, default_duration)
    \/ /\ nextSvc <= MaxDupRows
       /\ \E s \in DOMAIN services, new_name \in DupNames : DuplicateService(s, new_name)

SpecDuration == InitConfig /\ [][NextDuration]_vars

(***************************************************************************)
(* Properties of SpecDuration.                                             *)
(***************************************************************************)
\* default_duration as get_config() reads it in the state before the step.
DefaultBefore == get_config(config)[1].default_duration

\* What the rule stores for a caller's duration d.
RuleStores(d) == IF d = 60 /\ DefaultBefore # 60 THEN DefaultBefore ELSE d

C29_DurationStep ==
    /\ \A d \in DupDurations :
          (CreateServiceWith(DupService(d, NoSku)) /\ last'.ok) =>
              /\ services'[last'.id].duration_minutes = RuleStores(d)
              /\ d # 60 => services'[last'.id].duration_minutes = d
    /\ Duplicated =>
          services'[last'.id].duration_minutes = RuleStores(services[last'.ref].duration_minutes)
    /\ (/\ last'.op \in {"create_service", "duplicate_service"}
        /\ last'.ok /\ nextSvc' = nextSvc + 1
        /\ DefaultBefore # 60)
       => services'[last'.id].duration_minutes # 60

\* C29: create_service stores the caller's duration_minutes unchanged, except that 60 is
\* replaced by default_duration when the settings hold another value; while
\* default_duration is not 60, neither create_service nor duplicate_service produces a
\* service of 60 minutes.
C29_DurationRule == [][C29_DurationStep]_vars

\* With default_duration 45, a service created with 60 minutes holds 45 and one
\* created with 30 minutes holds 30.
C29_Witness ==
    /\ 1 \in DOMAIN config /\ config[1].default_duration = 45
    /\ last.op = "create_service" /\ last.ok
    /\ services[last.id].duration_minutes = 45
    /\ \E s \in DOMAIN services : services[s].duration_minutes = 30

(***************************************************************************)
(* Settings requests, query by query: the view loads the row, changes its  *)
(* copy and saves every column of it.                                      *)
(***************************************************************************)
\* toggleable_fields of settings_toggle
toggleable_fields == {"show_prices", "show_duration", "allow_online_booking",
                      "include_tax_in_price"}

\* settings_toggle up to config.save(): get_config(), the allow-list check, setattr.
StartSettingsToggle(r, field) ==
    /\ req[r].pc = "idle"
    /\ config' = get_config(config)
    /\ req' = [req EXCEPT ![r] =
                  IF field \notin toggleable_fields
                  THEN [Request("settings_toggle", "done", NoName, 1, field, NoRow, NoName, 0)
                           EXCEPT !.err = "Invalid field"]
                  ELSE Request("settings_toggle", "save", NoName, 1, field,
                               [get_config(config)[1] EXCEPT ![field] = ~@], NoName, 0)]
    /\ UNCHANGED <<categories, services, packages, items, nextCat, nextSvc, nextPkg, last>>
    /\ UNCHANGED <<variants, addons, service_addons, nextVariant, nextAddon>>

\* settings_save with data = {'default_duration': ...} up to config.save().
StartSettingsSave(r, default_duration) ==
    /\ req[r].pc = "idle"
    /\ config' = get_config(config)
    /\ req' = [req EXCEPT ![r] =
                  Request("settings_save", "save", NoName, 1, "default_duration",
                          [get_config(config)[1] EXCEPT !.default_duration = default_duration],
                          NoName, 0)]
    /\ UNCHANGED <<categories, services, packages, items, nextCat, nextSvc, nextPkg, last>>
    /\ UNCHANGED <<variants, addons, service_addons, nextVariant, nextAddon>>

\* config.save(): pk = 1 and every column of the copy is written.
SaveConfig(r) ==
    /\ req[r].pc = "save" /\ req[r].op \in {"settings_toggle", "settings_save"}
    /\ config' = Put(config, 1, req[r].obj)
    /\ req' = [req EXCEPT ![r] = [@ EXCEPT !.pc = "done", !.ok = TRUE]]
    /\ UNCHANGED <<categories, services, packages, items, nextCat, nextSvc, nextPkg, last>>
    /\ UNCHANGED <<variants, addons, service_addons, nextVariant, nextAddon>>

(***************************************************************************)
(* The settings-request specification: two workers serve settings_toggle   *)
(* and settings_save requests.                                             *)
(***************************************************************************)
SettingsReqIds == {1, 2}
ToggleFields == {"show_prices", "include_tax_in_price", "default_duration", "pk"}

NextSettings ==
    \/ \E r \in SettingsReqIds, field \in ToggleFields : StartSettingsToggle(r, field)
    \/ \E r \in SettingsReqIds, default_duration \in DurationInputs :
          StartSettingsSave(r, default_duration)
    \/ \E r \in SettingsReqIds : SaveConfig(r)
    \/ \E r \in SettingsReqIds : Respond(r)

SpecSettings == InitConfig /\ [][NextSettings]_vars

(***************************************************************************)
(* Properties of SpecSettings.                                             *)
(***************************************************************************)
\* Request r has completed a change of its field.
Changed(r) == req[r].pc = "done" /\ req[r].ok

\* Both workers have completed changes of different fields, and the stored row holds
\* the value each of them wrote to its field.
BothReflected ==
    (Changed(1) /\ Changed(2) /\ req[1].ref # req[2].ref) =>
        /\ config[1][req[1].ref] = req[1].obj[req[1].ref]
        /\ config[1][req[2].ref] = req[2].obj[req[2].ref]

C30_ToggleStep ==
    \A r \in SettingsReqIds :
        (/\ req[r].pc = "idle" /\ req'[r].op = "settings_toggle"
         /\ req'[r].ref \notin toggleable_fields)
        => (/\ req'[r].pc = "done" /\ ~req'[r].ok /\ req'[r].err = "Invalid field"
            /\ get_config(config') = get_config(config))

\* C30: when two settings requests that change different fields have both completed,
\* the stored row holds both changes; settings_toggle with a field outside the
\* allow-list fails and leaves the settings as they were.
C30_NoLostUpdate == [](BothReflected) /\ [][C30_ToggleStep]_vars

====
